---------------------------- MODULE Spec2Model ----------------------------
(***************************************************************************)
(* A model of cppillr: the lexer (cppillr/lexer.cpp), the two-phase parser *)
(* (cppillr/parser.cpp), the Program store (cppillr/program.h), the thread *)
(* pool (utils/thread_pool.h), the driver run_with_options                 *)
(* (cppillr/cppillr.cpp) and the evaluator (cppillr/run.cpp).              *)
(*                                                                         *)
(* Characters are one-character strings, Ord gives their ASCII code where  *)
(* the code compares characters by value.  Vector indices are 0-based as   *)
(* in the source; a TLA+ sequence s holds element i of the vector at       *)
(* s[i+1].                                                                 *)
(***************************************************************************)
EXTENDS Integers, Sequences, FiniteSets, TLC

(***************************************************************************)
(* Characters                                                              *)
(***************************************************************************)
(* Characters that TLA+ strings cannot hold unescaped are named. *)
NUL == "NUL"
LF == "LF"
TAB == "TAB"
CR == "CR"
DQUOTE == "DQ"
BACKSLASH == "BS"
BACKTICK == "BT"

AsciiPrintable ==
  << " ", "!", DQUOTE, "#", "$", "%", "&", "'", "(", ")", "*", "+", ",", "-",
     ".", "/", "0", "1", "2", "3", "4", "5", "6", "7", "8", "9", ":", ";",
     "<", "=", ">", "?", "@", "A", "B", "C", "D", "E", "F", "G", "H", "I",
     "J", "K", "L", "M", "N", "O", "P", "Q", "R", "S", "T", "U", "V", "W",
     "X", "Y", "Z", "[", BACKSLASH, "]", "^", "_", BACKTICK, "a", "b", "c", "d",
     "e",
     "f", "g", "h", "i", "j", "k", "l", "m", "n", "o", "p", "q", "r", "s",
     "t", "u", "v", "w", "x", "y", "z", "{", "|", "}", "~" >>

OrdTable ==
  [c \in {AsciiPrintable[k] : k \in 1..Len(AsciiPrintable)} |->
     31 + (CHOOSE k \in 1..Len(AsciiPrintable) : AsciiPrintable[k] = c)]

Ord(c) ==
  IF c = NUL THEN 0
  ELSE IF c = TAB THEN 9
  ELSE IF c = LF THEN 10
  ELSE IF c = CR THEN 13
  ELSE OrdTable[c]

InRange(c, lo, hi) == Ord(c) >= Ord(lo) /\ Ord(c) <= Ord(hi)
IsDigit(c) == InRange(c, "0", "9")

(***************************************************************************)
(* Keyword tables (cppillr/keywords.h, keywords.cpp).  The enum value of a *)
(* keyword is its 0-based position in the list.                            *)
(***************************************************************************)
keywords_id ==
  << <<"a","u","t","o">>, <<"b","o","o","l">>, <<"c","h","a","r">>,
     <<"c","o","n","s","t">>, <<"d","o","u","b","l","e">>,
     <<"f","l","o","a","t">>, <<"i","f">>, <<"i","n","t">>,
     <<"l","o","n","g">>, <<"r","e","t","u","r","n">>,
     <<"s","h","o","r","t">>, <<"s","i","g","n","e","d">>,
     <<"u","n","s","i","g","n","e","d">>, <<"v","o","i","d">> >>

pp_keywords_id ==
  << <<"d","e","f","i","n","e">>, <<"e","r","r","o","r">>,
     <<"i","f">>, <<"i","n","c","l","u","d","e">> >>

IndexIn(table, text) ==
  IF \E k \in 1..Len(table) : table[k] = text
  THEN (CHOOSE k \in 1..Len(table) : table[k] = text) - 1
  ELSE -1

Key(text) == IndexIn(keywords_id, text)
key_return == Key(<<"r","e","t","u","r","n">>)
pp_key_include == IndexIn(pp_keywords_id, <<"i","n","c","l","u","d","e">>)
pp_key_error == IndexIn(pp_keywords_id, <<"e","r","r","o","r">>)

BuiltinTypes ==
  { Key(<<"a","u","t","o">>), Key(<<"b","o","o","l">>),
    Key(<<"c","h","a","r">>), Key(<<"d","o","u","b","l","e">>),
    Key(<<"f","l","o","a","t">>), Key(<<"i","n","t">>),
    Key(<<"l","o","n","g">>), Key(<<"s","h","o","r","t">>),
    Key(<<"s","i","g","n","e","d">>), Key(<<"u","n","s","i","g","n","e","d">>),
    Key(<<"v","o","i","d">>) }


(***************************************************************************)
(* Lexer (cppillr/lexer.cpp, cppillr/lexer.h).  A Lexer value L holds the  *)
(* members of class Lexer, of its LexData and of its CharReader: text is   *)
(* the content of the open file and p the number of characters read.       *)
(***************************************************************************)
Token(kind, line, col, i, j) ==
  [kind |-> kind, pos |-> <<line, col>>, i |-> i, j |-> j]

LexerInit(fn, text) ==
  [state |-> "ReadingWhitespace", prepro |-> FALSE, chr |-> NUL,
   tok_id |-> <<>>, fn |-> fn, ids |-> <<>>, comments |-> <<>>,
   tokens |-> <<>>, text |-> text, p |-> 0, line |-> 1, col |-> 0,
   act |-> "NextChr", started |-> FALSE, exited |-> FALSE]

(* The character CharReader::nextchar() returns: 0 at the end of the file. *)
peekchar(L) == IF L.p < Len(L.text) THEN L.text[L.p + 1] ELSE NUL

(* The reader after CharReader::nextchar(). *)
nextchar(L) ==
  IF L.p < Len(L.text)
  THEN [L EXCEPT !.p = @ + 1,
                 !.line = IF peekchar(L) = LF THEN @ + 1 ELSE @,
                 !.col = IF peekchar(L) = LF THEN 0 ELSE @ + 1]
  ELSE L

(* CharReader::eof(): set once a read has met the end of the file; a file  *)
(* shorter than the 1024-byte buffer meets it at its first read.           *)
reader_eof(L) == L.p >= Len(L.text) \/ Len(L.text) < 1024

add_token(L, kind, i, j) ==
  [L EXCEPT !.tokens = Append(@, Token(kind, L.line, L.col, i, j))]

(* An add_token_id() that gives the token the range after the arena. *)
add_token_id_after(L, kind) ==
  LET ids2 == L.ids \o L.tok_id
  IN [L EXCEPT !.ids = ids2,
               !.tokens = Append(@, Token(kind, L.line, L.col,
                                          Len(ids2), Len(ids2) + Len(L.tok_id))),
               !.tok_id = <<>>]

add_token_id(L, kind) ==
  LET ids2 == L.ids \o L.tok_id
  IN [L EXCEPT !.ids = ids2,
               !.tokens = Append(@, Token(kind, L.line, L.col,
                                          Len(ids2) - Len(L.tok_id), Len(ids2))),
               !.tok_id = <<>>]

isspace(c) == c \in {" ", TAB, LF, CR}

RECURSIVE trim_right(_)
trim_right(s) ==
  IF s # <<>> /\ isspace(s[Len(s)]) THEN trim_right(SubSeq(s, 1, Len(s) - 1))
  ELSE s

RECURSIVE trim_left(_)
trim_left(s) ==
  IF s # <<>> /\ isspace(s[1]) THEN trim_left(Tail(s)) ELSE s

trim_string(s) == trim_left(trim_right(s))

(* An add_token_comment() that, when it merges, moves the start of the    *)
(* Comment token to the text it has just added.                            *)
add_token_comment_restart(L) ==
  LET t == trim_string(L.tok_id)
      c2 == L.comments \o t
      n == Len(L.tokens)
  IN IF t = <<>> THEN [L EXCEPT !.tok_id = t]
     ELSE IF n > 0 /\ L.tokens[n].kind = "Comment"
     THEN [L EXCEPT !.comments = c2, !.tokens[n].i = Len(c2) - Len(t),
                    !.tokens[n].j = Len(c2), !.tok_id = <<>>]
     ELSE [L EXCEPT !.comments = c2,
                    !.tokens = Append(@, Token("Comment", L.line, L.col,
                                               Len(c2) - Len(t), Len(c2))),
                    !.tok_id = <<>>]

add_token_comment(L) ==
  LET t == trim_string(L.tok_id)
      c2 == L.comments \o t
      n == Len(L.tokens)
  IN IF t = <<>> THEN [L EXCEPT !.tok_id = t]
     ELSE IF n > 0 /\ L.tokens[n].kind = "Comment"
     THEN [L EXCEPT !.comments = c2, !.tokens[n].j = Len(c2), !.tok_id = <<>>]
     ELSE [L EXCEPT !.comments = c2,
                    !.tokens = Append(@, Token("Comment", L.line, L.col,
                                               Len(c2) - Len(t), Len(c2))),
                    !.tok_id = <<>>]

NextChr(L) == [L EXCEPT !.act = "NextChr"]
ProcessChr(L) == [L EXCEPT !.act = "ProcessChr"]
(* Lexer::error(): prints the position and calls std::exit(1). *)
lexer_error(L) == [L EXCEPT !.exited = TRUE, !.act = "NextChr"]

IsIdStart(c) ==
  InRange(c, "a", "z") \/ InRange(c, "A", "Z") \/ Ord(c) >= Ord("_")

(* One or two characters of an operator: the second character has been     *)
(* read into c2 and L2 is the reader after it.                             *)
punct2(L2, c, c2) ==
  NextChr([add_token(L2, "Punctuator", Ord(c), Ord(c2)) EXCEPT !.chr = c2])
(* An operator of one character after which the character read ahead is   *)
(* dropped.                                                                *)
punct1_skip(L2, c, c2) ==
  NextChr([add_token(L2, "Punctuator", Ord(c), 0) EXCEPT !.chr = c2])
punct1(L2, c, c2) ==
  ProcessChr([add_token(L2, "Punctuator", Ord(c), 0) EXCEPT !.chr = c2])

process_ReadingWhitespace(L) ==
  LET c == L.chr
      c2 == peekchar(L)
      L2 == nextchar(L)
  IN
  CASE c \in {" ", TAB, CR} -> NextChr(L)
    [] c = LF ->
         IF L.prepro
         THEN NextChr([add_token(L, "PPEnd", 0, 0) EXCEPT !.prepro = FALSE])
         ELSE NextChr(L)
    [] c = BACKSLASH -> NextChr([L EXCEPT !.state = "ReadingWhitespaceToEOL"])
    [] c = "#" ->
         NextChr([add_token(L, "PPBegin", 0, 0)
                    EXCEPT !.state = "ReadingIdentifier", !.prepro = TRUE,
                           !.tok_id = <<>>])
    [] c = DQUOTE ->
         NextChr([L EXCEPT !.state = "ReadingString", !.tok_id = <<>>])
    [] c = "'" ->
         NextChr([L EXCEPT !.state = "ReadingChar", !.tok_id = <<>>])
    [] c \in {"{", "}", "(", ")", "[", "]", ",", ";", "?", "@"} ->
         NextChr(add_token(L, "Punctuator", Ord(c), 0))
    [] c = "." ->
         IF IsDigit(c2)
         THEN NextChr([L2 EXCEPT !.tok_id = @ \o <<c, c2>>,
                                 !.state = "ReadingDecimalPart"])
         ELSE punct1(L2, c, c2)
    [] c = "+" ->
         IF c2 \in {"+", "="} THEN punct2(L2, c, c2) ELSE punct1(L2, c, c2)
    [] c = "-" ->
         IF c2 \in {"-", "=", ">"} THEN punct2(L2, c, c2)
         ELSE punct1(L2, c, c2)
    [] c = "/" ->
         IF c2 = "/"
         THEN NextChr([L2 EXCEPT !.chr = c2, !.state = "ReadingLineComment"])
         ELSE IF c2 = "*"
         THEN NextChr([L2 EXCEPT !.chr = c2,
                                 !.state = "ReadingMultilineComment"])
         ELSE IF c2 = "=" THEN punct2(L2, c, c2)
         ELSE punct1(L2, c, c2)
    [] c \in {"&", "|", ":"} ->
         IF c = c2
         THEN NextChr(add_token(L2, "Punctuator", Ord(c), Ord(c2)))
         ELSE punct1(L2, c, c2)
    [] c \in {"^", "%", "*", "!", "~"} ->
         IF c2 = "="
         THEN NextChr(add_token(L2, "Punctuator", Ord(c), Ord(c2)))
         ELSE punct1(L2, c, c2)
    [] c \in {"<", ">", "="} ->
         IF c = c2 \/ c2 = "="
         THEN NextChr(add_token(L2, "Punctuator", Ord(c), Ord(c2)))
         ELSE punct1(L2, c, c2)
    [] OTHER ->
         IF IsIdStart(c)
         THEN NextChr([L EXCEPT !.state = "ReadingIdentifier",
                                !.tok_id = Append(@, c)])
         ELSE IF c = "0"
         THEN IF c2 \in {"x", "X"}
              THEN NextChr([L2 EXCEPT !.state = "ReadingHexadecimal",
                                      !.tok_id = @ \o <<c, c2>>])
              ELSE IF c2 \in {"b", "B"}
              THEN NextChr([L2 EXCEPT !.state = "ReadingBinary",
                                      !.tok_id = @ \o <<c, c2>>])
              ELSE IF InRange(c2, "0", "7")
              THEN NextChr([L2 EXCEPT !.state = "ReadingOctal",
                                      !.tok_id = @ \o <<c, c2>>])
              ELSE IF c2 = "."
              THEN NextChr([L2 EXCEPT !.state = "ReadingDecimalPart",
                                      !.tok_id = @ \o <<c, c2>>])
              ELSE ProcessChr(
                     [add_token_id([L2 EXCEPT !.tok_id = Append(@, c)],
                                   "NumericConstant")
                        EXCEPT !.state = "ReadingWhitespace", !.chr = c2])
         ELSE IF InRange(c, "1", "9")
         THEN NextChr([L EXCEPT !.state = "ReadingIntegerPart",
                                !.tok_id = Append(@, c)])
         ELSE IF c = NUL /\ reader_eof(L) THEN NextChr(L)
         ELSE lexer_error(L)

process_ReadingWhitespaceToEOL(L) ==
  CASE L.chr \in {" ", TAB, CR} -> NextChr(L)
    [] L.chr = LF -> NextChr([L EXCEPT !.state = "ReadingWhitespace"])
    [] OTHER -> lexer_error(L)

process_ReadingErrorTextToEOL(L) ==
  IF L.chr = LF
  THEN NextChr([add_token(add_token_id(L, "Literal"), "PPEnd", 0, 0)
                  EXCEPT !.state = "ReadingWhitespace", !.prepro = FALSE])
  ELSE NextChr([L EXCEPT !.tok_id = Append(@, L.chr)])

process_ReadingIdentifier(L) ==
  LET c == L.chr
      pp == IndexIn(pp_keywords_id, L.tok_id)
      kw == IndexIn(keywords_id, L.tok_id)
  IN
  IF InRange(c, "a", "z") \/ InRange(c, "A", "Z") \/ IsDigit(c)
     \/ Ord(c) >= Ord("_")
  THEN NextChr([L EXCEPT !.tok_id = Append(@, c)])
  ELSE IF L.prepro
  THEN IF pp >= 0
       THEN ProcessChr(
              [add_token(L, "PPKeyword", pp, 0)
                 EXCEPT !.tok_id = <<>>,
                        !.state = IF pp = pp_key_include
                                  THEN "ReadingBeforeHeaderName"
                                  ELSE IF pp = pp_key_error
                                  THEN "ReadingErrorTextToEOL"
                                  ELSE "ReadingWhitespace"])
       ELSE ProcessChr([add_token_id(L, "Identifier")
                          EXCEPT !.state = "ReadingWhitespace"])
  ELSE IF kw >= 0
  THEN ProcessChr([add_token(L, "Keyword", kw, 0)
                     EXCEPT !.tok_id = <<>>, !.state = "ReadingWhitespace"])
  ELSE ProcessChr([add_token_id(L, "Identifier")
                     EXCEPT !.state = "ReadingWhitespace"])

process_ReadingLineComment(L) ==
  IF L.chr = LF
  THEN NextChr([add_token_comment([L EXCEPT !.tok_id = Append(@, L.chr)])
                  EXCEPT !.state = "ReadingWhitespace"])
  ELSE NextChr([L EXCEPT !.tok_id = Append(@, L.chr)])

process_ReadingMultilineComment(L) ==
  LET c2 == peekchar(L)
      L2 == [nextchar(L) EXCEPT !.chr = c2]
  IN
  IF L.chr = "*"
  THEN IF c2 = "/"
       THEN NextChr([add_token_comment(L2) EXCEPT !.state = "ReadingWhitespace"])
       ELSE NextChr([L2 EXCEPT !.tok_id = Append(@, c2)])
  ELSE NextChr([L EXCEPT !.tok_id = Append(@, L.chr)])

process_ReadingBeforeHeaderName(L) ==
  CASE L.chr \in {" ", TAB} -> NextChr(L)
    [] L.chr = "<" ->
         NextChr([L EXCEPT !.state = "ReadingSysHeaderName",
                           !.tok_id = Append(@, L.chr)])
    [] L.chr = DQUOTE ->
         NextChr([L EXCEPT !.state = "ReadingUserHeaderName",
                           !.tok_id = Append(@, L.chr)])
    [] OTHER ->
         IF IsIdStart(L.chr)
         THEN NextChr([L EXCEPT !.state = "ReadingIdentifier",
                                !.tok_id = Append(@, L.chr)])
         ELSE lexer_error(L)

(* The escape sequences \n, \r and \t are translated, any other escaped    *)
(* character stands for itself.                                            *)
escaped(c) ==
  CASE c = "n" -> LF [] c = "r" -> CR [] c = "t" -> TAB [] OTHER -> c

(* A delimited text: header names keep their closing delimiter, strings    *)
(* and character constants do not.                                         *)
process_delimited(L, close, keep, kind) ==
  LET c2 == peekchar(L)
      L2 == [nextchar(L) EXCEPT !.chr = c2]
  IN
  IF L.chr = close
  THEN NextChr([add_token_id(IF keep
                             THEN [L EXCEPT !.tok_id = Append(@, L.chr)]
                             ELSE L, kind)
                  EXCEPT !.state = "ReadingWhitespace"])
  ELSE IF L.chr = BACKSLASH
  THEN NextChr([L2 EXCEPT !.tok_id = Append(@, escaped(c2))])
  ELSE NextChr([L EXCEPT !.tok_id = Append(@, L.chr)])

(* A numeric literal in one of the states that read digits. *)
process_digits(L, isdigit) ==
  IF isdigit
  THEN NextChr([L EXCEPT !.tok_id = Append(@, L.chr)])
  ELSE ProcessChr([add_token_id(L, "NumericConstant")
                     EXCEPT !.state = "ReadingWhitespace"])

process_ReadingOctal(L) ==
  IF InRange(L.chr, "8", "9") THEN lexer_error(L)
  ELSE process_digits(L, InRange(L.chr, "0", "7"))

process_ReadingIntegerPart(L) ==
  IF L.chr = "."
  THEN NextChr([L EXCEPT !.state = "ReadingDecimalPart",
                         !.tok_id = Append(@, L.chr)])
  ELSE process_digits(L, IsDigit(L.chr))

process_ReadingDecimalPart(L) ==
  IF L.chr = "f"
  THEN NextChr([add_token_id([L EXCEPT !.tok_id = Append(@, L.chr)],
                             "NumericConstant")
                  EXCEPT !.state = "ReadingWhitespace"])
  ELSE process_digits(L, IsDigit(L.chr))

(* Lexer::process(): one step of the state machine on the character chr. *)
process(L) ==
  CASE L.state = "ReadingWhitespace" -> process_ReadingWhitespace(L)
    [] L.state = "ReadingWhitespaceToEOL" -> process_ReadingWhitespaceToEOL(L)
    [] L.state = "ReadingErrorTextToEOL" -> process_ReadingErrorTextToEOL(L)
    [] L.state = "ReadingIdentifier" -> process_ReadingIdentifier(L)
    [] L.state = "ReadingLineComment" -> process_ReadingLineComment(L)
    [] L.state = "ReadingMultilineComment" ->
         process_ReadingMultilineComment(L)
    [] L.state = "ReadingBeforeHeaderName" ->
         process_ReadingBeforeHeaderName(L)
    [] L.state = "ReadingSysHeaderName" ->
         process_delimited(L, ">", TRUE, "PPHeaderName")
    [] L.state = "ReadingUserHeaderName" ->
         process_delimited(L, DQUOTE, TRUE, "PPHeaderName")
    [] L.state = "ReadingString" ->
         process_delimited(L, DQUOTE, FALSE, "Literal")
    [] L.state = "ReadingChar" ->
         process_delimited(L, "'", FALSE, "CharConstant")
    [] L.state = "ReadingHexadecimal" ->
         process_digits(L, InRange(L.chr, "a", "f") \/ InRange(L.chr, "A", "F")
                           \/ IsDigit(L.chr))
    [] L.state = "ReadingBinary" -> process_digits(L, L.chr \in {"0", "1"})
    [] L.state = "ReadingOctal" -> process_ReadingOctal(L)
    [] L.state = "ReadingIntegerPart" -> process_ReadingIntegerPart(L)
    [] L.state = "ReadingDecimalPart" -> process_ReadingDecimalPart(L)
    [] OTHER -> NextChr(L)

(* One turn of the loops of Lexer::lex(): read the next character when the *)
(* last call of process() asked for it, then call process().               *)
lex_step(L) ==
  IF L.act = "NextChr"
  THEN process([nextchar(L) EXCEPT !.chr = peekchar(L), !.started = TRUE])
  ELSE process(L)

(* The do-while of Lexer::lex() ends once process() has consumed chr = 0. *)
lex_loop_done(L) ==
  L.exited \/ (L.started /\ L.act = "NextChr" /\ L.chr = NUL)

RECURSIVE lex_loop(_)
lex_loop(L) == IF lex_loop_done(L) THEN L ELSE lex_loop(lex_step(L))

(* struct LexData, as Lexer::move_data() hands it over. *)
LexDataOf(L) ==
  [fn |-> L.fn, ids |-> L.ids, comments |-> L.comments, tokens |-> L.tokens,
   readed_bytes |-> L.p]

(* Lexer::lex() on an opened file: [exited, result, data]. *)
lex_text(fn, text) ==
  LET L == lex_loop(LexerInit(fn, text))
  IN [exited |-> L.exited, result |-> "OK",
      data |-> LexDataOf(IF L.exited THEN L ELSE add_token(L, "Eof", 0, 0))]

(***************************************************************************)
(* Parser (cppillr/parser.h, cppillr/parser.cpp).  The parser's position   *)
(* is tok_i, written ti; an operator returns the position it leaves, the   *)
(* node it built (NULL for nullptr) and exited = TRUE when Parser::error() *)
(* ended the process.                                                      *)
(***************************************************************************)
NULL == [kind |-> "nullptr"]

(* Parser::eof, the token goto_token() yields outside the token vector. *)
parser_eof == Token("Eof", 0, 0, 0, 0)

goto_token(lex, ti) ==
  IF ti >= 0 /\ ti < Len(lex.tokens) THEN lex.tokens[ti + 1] ELSE parser_eof

(* An id_text() that reads the arena from its first byte. *)
id_text_from_start(lex, t) == SubSeq(lex.ids, 1, t.j)

(* LexData::id_text(tok): the bytes [tok.i, tok.j) of ids. *)
id_text(lex, t) == SubSeq(lex.ids, t.i + 1, t.j)

is_punctuator(t, c) == t.kind = "Punctuator" /\ t.i = Ord(c)

is_builtin_type(t) == t.kind = "Keyword" /\ t.i \in BuiltinTypes

PResult(ti, node) == [exited |-> FALSE, ti |-> ti, node |-> node]
PExit(ti) == [exited |-> TRUE, ti |-> ti, node |-> NULL]

(* A loop that ends the body at the first closing brace, whatever the     *)
(* depth.                                                                  *)
RECURSIVE body_fast_loop_first(_, _, _)
body_fast_loop_first(lex, ti, scope) ==
  LET t == goto_token(lex, ti + 1)
  IN IF t.kind = "Eof" THEN -1
     ELSE IF is_punctuator(t, "}") THEN ti + 1
     ELSE body_fast_loop_first(lex, ti + 1, scope)

(* The loop of function_body_fast(): each turn starts with next_token(). *)
RECURSIVE body_fast_loop(_, _, _)
body_fast_loop(lex, ti, scope) ==
  LET t == goto_token(lex, ti + 1)
  IN IF t.kind = "Eof" THEN -1
     ELSE IF is_punctuator(t, "}")
     THEN IF scope = 0 THEN ti + 1 ELSE body_fast_loop(lex, ti + 1, scope - 1)
     ELSE IF is_punctuator(t, "{") THEN body_fast_loop(lex, ti + 1, scope + 1)
     ELSE body_fast_loop(lex, ti + 1, scope)

(* A function_body_fast() that stores index 0 instead of the parser's       *)
(* lex_i.                                                                  *)
function_body_fast_zero(lex, ti, lex_i) ==
  LET end == body_fast_loop(lex, ti + 1, 0)
  IN IF ~is_punctuator(goto_token(lex, ti + 1), "{") THEN PExit(ti + 1)
     ELSE IF end < 0 THEN PExit(Len(lex.tokens))
     ELSE PResult(end, [kind |-> "Body", lex_i |-> 0, beg_tok |-> ti + 1,
                        end_tok |-> end, block |-> NULL])

(* A function_body_fast() that stores the opening brace as the end of the  *)
(* body.                                                                   *)
function_body_fast_open(lex, ti, lex_i) ==
  LET end == body_fast_loop(lex, ti + 1, 0)
  IN IF ~is_punctuator(goto_token(lex, ti + 1), "{") THEN PExit(ti + 1)
     ELSE IF end < 0 THEN PExit(Len(lex.tokens))
     ELSE PResult(end, [kind |-> "Body", lex_i |-> lex_i, beg_tok |-> ti + 1,
                        end_tok |-> ti + 1, block |-> NULL])

function_body_fast(lex, ti, lex_i) ==
  LET end == body_fast_loop(lex, ti + 1, 0)
  IN IF ~is_punctuator(goto_token(lex, ti + 1), "{") THEN PExit(ti + 1)
     ELSE IF end < 0 THEN PExit(Len(lex.tokens))
     ELSE PResult(end, [kind |-> "Body", lex_i |-> lex_i, beg_tok |-> ti + 1,
                        end_tok |-> end, block |-> NULL])

RECURSIVE skip_pointers(_, _)
skip_pointers(lex, ti) ==
  IF is_punctuator(goto_token(lex, ti), "*") THEN skip_pointers(lex, ti + 1)
  ELSE ti

(* A loop in which only the last parameter may omit its name. *)
RECURSIVE function_params_loop_named(_, _, _)
function_params_loop_named(lex, ti, params) ==
  LET t == goto_token(lex, ti + 1)
      tn == skip_pointers(lex, ti + 2)
      n == goto_token(lex, tn)
      unnamed == [kind |-> "ParamNode", builtin_type |-> t.i, name |-> <<>>]
      named == [unnamed EXCEPT !.name = id_text(lex, n)]
      a == goto_token(lex, tn + 1)
  IN IF t.kind = "Eof" THEN PResult(ti + 1, NULL)
     ELSE IF is_punctuator(t, ")")
     THEN PResult(ti + 1, [kind |-> "ParamsNode", params |-> params])
     ELSE IF is_builtin_type(t)
     THEN IF n.kind = "Identifier"
          THEN IF is_punctuator(a, ")")
               THEN PResult(tn + 1, [kind |-> "ParamsNode",
                                     params |-> Append(params, named)])
               ELSE IF ~is_punctuator(a, ",") THEN PExit(tn + 1)
               ELSE function_params_loop_named(lex, tn + 1,
                                               Append(params, named))
          ELSE IF is_punctuator(n, ")")
          THEN PResult(tn, [kind |-> "ParamsNode",
                            params |-> Append(params, unnamed)])
          ELSE PExit(tn)
     ELSE PExit(ti + 1)

(* The loop of function_params(): each turn starts with next_token(). *)
RECURSIVE function_params_loop(_, _, _)
function_params_loop(lex, ti, params) ==
  LET t == goto_token(lex, ti + 1)
      tn == skip_pointers(lex, ti + 2)
      n == goto_token(lex, tn)
      unnamed == [kind |-> "ParamNode", builtin_type |-> t.i, name |-> <<>>]
      named == [unnamed EXCEPT !.name = id_text(lex, n)]
      a == goto_token(lex, tn + 1)
  IN IF t.kind = "Eof" THEN PResult(ti + 1, NULL)
     ELSE IF is_punctuator(t, ")")
     THEN PResult(ti + 1, [kind |-> "ParamsNode", params |-> params])
     ELSE IF is_builtin_type(t)
     THEN IF n.kind = "Identifier"
          THEN IF is_punctuator(a, ")")
               THEN PResult(tn + 1, [kind |-> "ParamsNode",
                                     params |-> Append(params, named)])
               ELSE IF ~is_punctuator(a, ",") THEN PExit(tn + 1)
               ELSE function_params_loop(lex, tn + 1, Append(params, named))
          ELSE IF is_punctuator(n, ")")
          THEN PResult(tn, [kind |-> "ParamsNode",
                            params |-> Append(params, unnamed)])
          ELSE IF ~is_punctuator(n, ",") THEN PExit(tn)
          ELSE function_params_loop(lex, tn, Append(params, unnamed))
     ELSE PExit(ti + 1)

function_params(lex, ti) ==
  IF ~is_punctuator(goto_token(lex, ti + 1), "(") THEN PExit(ti + 1)
  ELSE function_params_loop(lex, ti + 1, <<>>)

(* function_definition() with tok_i = ti on the builtin type. *)
function_definition(lex, ti, lex_i) ==
  LET name == goto_token(lex, ti + 1)
      ps == function_params(lex, ti + 1)
      b == function_body_fast(lex, ps.ti, lex_i)
  IN IF name.kind # "Identifier" THEN PExit(ti + 1)
     ELSE IF ps.exited \/ ps.node = NULL THEN ps
     ELSE IF b.exited THEN b
     ELSE PResult(b.ti, [kind |-> "Function",
                         builtin_type |-> goto_token(lex, ti).i,
                         name |-> id_text(lex, name),
                         params |-> ps.node, body |-> b.node])

(* A dcl_seq() that steps over a token that begins no declaration and     *)
(* goes on with the next one.                                              *)
RECURSIVE dcl_seq_skip(_, _, _, _)
dcl_seq_skip(lex, ti, lex_i, functions) ==
  LET t == goto_token(lex, ti + 1)
      f == function_definition(lex, ti + 1, lex_i)
  IN IF t.kind = "Eof" THEN [exited |-> FALSE, functions |-> functions]
     ELSE IF ~is_builtin_type(t)
     THEN dcl_seq_skip(lex, ti + 1, lex_i, functions)
     ELSE IF f.exited THEN [exited |-> TRUE, functions |-> functions]
     ELSE IF f.node = NULL THEN [exited |-> FALSE, functions |-> functions]
     ELSE dcl_seq_skip(lex, f.ti, lex_i, Append(functions, f.node))

(* dcl_seq() and dcl(): the functions found, until the end of the tokens   *)
(* or the first declaration that is no function definition.                *)
RECURSIVE dcl_seq(_, _, _, _)
dcl_seq(lex, ti, lex_i, functions) ==
  LET t == goto_token(lex, ti + 1)
      f == function_definition(lex, ti + 1, lex_i)
  IN IF t.kind = "Eof" \/ ~is_builtin_type(t)
     THEN [exited |-> FALSE, functions |-> functions]
     ELSE IF f.exited THEN [exited |-> TRUE, functions |-> functions]
     ELSE IF f.node = NULL THEN [exited |-> FALSE, functions |-> functions]
     ELSE dcl_seq(lex, f.ti, lex_i, Append(functions, f.node))

(* Parser(lex_i).parse(lex) and move_data(): [exited, data]. *)
Parser_parse(lex, lex_i) ==
  LET r == dcl_seq(lex, -1, lex_i, <<>>)
  IN [exited |-> r.exited,
      data |-> [fn |-> lex.fn, functions |-> r.functions]]

(***************************************************************************)
(* int arithmetic and std::strtol(text, nullptr, 0)                        *)
(***************************************************************************)
(* TLC's integers are the 32-bit int of the program: a computation that    *)
(* leaves the range of int stops the check with an overflow error, so no   *)
(* checked state rests on a wrapped value.                                 *)
IntMin == -2147483647 - 1

Abs(x) == IF x < 0 THEN -x ELSE x

(* A quotient rounded toward minus infinity. *)
CDiv_floor(x, y) ==
  IF (x < 0) = (y < 0) THEN Abs(x) \div Abs(y)
  ELSE -((Abs(x) + Abs(y) - 1) \div Abs(y))

(* x / y and x % y of C++: the quotient is truncated toward zero. *)
CDiv(x, y) ==
  IF (x < 0) = (y < 0) THEN Abs(x) \div Abs(y) ELSE -(Abs(x) \div Abs(y))
CMod(x, y) == x - y * CDiv(x, y)

DigitVal(c) ==
  IF IsDigit(c) THEN Ord(c) - Ord("0")
  ELSE IF InRange(c, "a", "z") THEN 10 + Ord(c) - Ord("a")
  ELSE IF InRange(c, "A", "Z") THEN 10 + Ord(c) - Ord("A")
  ELSE 99

RECURSIVE digits_value(_, _, _, _)
digits_value(s, k, base, acc) ==
  IF k <= Len(s) /\ DigitVal(s[k]) < base
  THEN digits_value(s, k + 1, base, acc * base + DigitVal(s[k]))
  ELSE acc

(* strtol with base 0: 0x and 0X give base 16, a leading 0 base 8, else    *)
(* base 10; the conversion stops at the first character that is no digit   *)
(* of the base.  binary tells whether the C library also reads the prefix  *)
(* 0b or 0B (C23) or stops after the leading 0.                            *)
strtol(s, binary) ==
  IF Len(s) >= 3 /\ s[1] = "0" /\ s[2] \in {"x", "X"} /\ DigitVal(s[3]) < 16
  THEN digits_value(s, 3, 16, 0)
  ELSE IF binary /\ Len(s) >= 3 /\ s[1] = "0" /\ s[2] \in {"b", "B"}
          /\ DigitVal(s[3]) < 2
  THEN digits_value(s, 3, 2, 0)
  ELSE IF Len(s) >= 1 /\ s[1] = "0" THEN digits_value(s, 1, 8, 0)
  ELSE digits_value(s, 1, 10, 0)

(***************************************************************************)
(* Phase 2 of the parser: statements and expressions                       *)
(***************************************************************************)
RECURSIVE expression(_, _, _)
RECURSIVE primary_expression(_, _, _)

(* primary_expression() after the expression e that follows a "(". *)
primary_paren(lex, e) ==
  IF e.exited \/ ~is_punctuator(goto_token(lex, e.ti), ")")
  THEN PExit(e.ti)
  ELSE PResult(e.ti + 1, e.node)

(* primary_expression() after the operand o of the unary operator t. *)
primary_unary(t, o) ==
  IF o.exited \/ o.node = NULL THEN PExit(o.ti)
  ELSE PResult(o.ti, [kind |-> "UnaryExpr", op |-> t.i, operand |-> o.node])

(* primary_expression() with tok_i = ti. *)
primary_expression(lex, ti, binary) ==
  LET t == goto_token(lex, ti)
  IN IF is_punctuator(t, "(")
     THEN primary_paren(lex, expression(lex, ti + 1, binary))
     ELSE IF \E c \in {"*", "&", "+", "-", "!", "~"} : is_punctuator(t, c)
     THEN primary_unary(t, primary_expression(lex, ti + 1, binary))
     ELSE IF t.kind = "NumericConstant"
     THEN PResult(ti + 1, [kind |-> "Literal",
                           value |-> strtol(id_text(lex, t), binary)])
     ELSE PResult(ti, NULL)

RECURSIVE multiplicative_loop(_, _, _, _)

(* The body of the loop of multiplicative_expression() after the right     *)
(* operand rhs of the operator t.                                          *)
multiplicative_rhs(lex, t, binary, e, rhs) ==
  IF rhs.exited \/ rhs.node = NULL THEN PExit(rhs.ti)
  ELSE multiplicative_loop(lex, rhs.ti, binary,
         [kind |-> "BinExpr", op |-> t.i, lhs |-> e, rhs |-> rhs.node])

(* The loop of multiplicative_expression(), e the operand built so far. *)
multiplicative_loop(lex, ti, binary, e) ==
  LET t == goto_token(lex, ti)
  IN IF \E c \in {"*", "/", "%"} : is_punctuator(t, c)
     THEN multiplicative_rhs(lex, t, binary, e,
                             primary_expression(lex, ti + 1, binary))
     ELSE PResult(ti, e)

(* A multiplicative_expression() that stops after its first operand. *)
multiplicative_first_only(lex, binary, e) == e

(* multiplicative_expression() after its first operand e. *)
multiplicative_first(lex, binary, e) ==
  IF e.exited \/ e.node = NULL THEN e
  ELSE multiplicative_loop(lex, e.ti, binary, e.node)

multiplicative_expression(lex, ti, binary) ==
  multiplicative_first(lex, binary, primary_expression(lex, ti, binary))

RECURSIVE additive_loop(_, _, _, _)

(* The body of the loop of additive_expression() after the right operand   *)
(* rhs of the operator t: a missing right operand is kept as nullptr.      *)
additive_rhs(lex, t, binary, e, rhs) ==
  IF rhs.exited THEN rhs
  ELSE additive_loop(lex, rhs.ti, binary,
         [kind |-> "BinExpr", op |-> t.i, lhs |-> e, rhs |-> rhs.node])

(* The loop of additive_expression(), e the operand built so far. *)
additive_loop(lex, ti, binary, e) ==
  LET t == goto_token(lex, ti)
  IN IF \E c \in {"+", "-"} : is_punctuator(t, c)
     THEN additive_rhs(lex, t, binary, e,
                       multiplicative_expression(lex, ti + 1, binary))
     ELSE PResult(ti, e)

(* additive_expression() after its first operand e. *)
additive_first(lex, binary, e) ==
  IF e.exited \/ e.node = NULL THEN e
  ELSE additive_loop(lex, e.ti, binary, e.node)

additive_expression(lex, ti, binary) ==
  additive_first(lex, binary, multiplicative_expression(lex, ti, binary))

expression(lex, ti, binary) == additive_expression(lex, ti, binary)

(* return_stmt() after the expression e. *)
return_expr(lex, e) ==
  IF e.exited \/ e.node = NULL THEN PExit(e.ti)
  ELSE PResult(IF is_punctuator(goto_token(lex, e.ti), ";")
               THEN e.ti + 1 ELSE e.ti,
               [kind |-> "Return", expr |-> e.node])

(* return_stmt() with tok_i = ti on the keyword return. *)
return_stmt(lex, ti, binary) ==
  LET t == goto_token(lex, ti + 1)
  IN IF t.kind = "Eof" THEN PExit(ti + 1)
     ELSE IF is_punctuator(t, ";")
     THEN PResult(ti + 2, [kind |-> "Return", expr |-> NULL])
     ELSE return_expr(lex, expression(lex, ti + 1, binary))

(* statement(): nullptr for the empty statement. *)
statement(lex, ti, binary) ==
  LET t == goto_token(lex, ti)
  IN IF is_punctuator(t, ";") THEN PResult(ti + 1, NULL)
     ELSE IF t.kind = "Keyword" /\ t.i = key_return
     THEN return_stmt(lex, ti, binary)
     ELSE PExit(ti)

RECURSIVE compound_loop(_, _, _, _)

(* The body of the loop of compound_statement() after the statement s: a   *)
(* statement() that yields nullptr makes the whole block nullptr.          *)
compound_stmt(lex, binary, stmts, s) ==
  IF s.exited THEN s
  ELSE IF s.node = NULL THEN PResult(s.ti, NULL)
  ELSE compound_loop(lex, s.ti, binary, Append(stmts, s.node))

(* The loop of compound_statement(). *)
compound_loop(lex, ti, binary, stmts) ==
  LET t == goto_token(lex, ti)
  IN IF t.kind = "Eof" THEN PExit(ti)
     ELSE IF is_punctuator(t, "}")
     THEN PResult(ti, [kind |-> "CompoundStmt", stmts |-> stmts])
     ELSE compound_stmt(lex, binary, stmts, statement(lex, ti, binary))

compound_statement(lex, ti, binary) ==
  IF ~is_punctuator(goto_token(lex, ti), "{") THEN PExit(ti)
  ELSE compound_loop(lex, ti + 1, binary, <<>>)

(* Parser::parse_function_body(lex, f): the value given to f->body->block. *)
parse_function_body(lex, f, binary) ==
  compound_statement(lex, f.body.beg_tok, binary)

(***************************************************************************)
(* Program (cppillr/program.h)                                             *)
(***************************************************************************)
(* An add_lex() that returns the index of the first element. *)
add_lex_index_first(size) == 0

(* add_lex(): the index it returns, from lex_data.size() before the        *)
(* emplace_back.                                                           *)
add_lex_index(size) == size

(* What a read outside the vector yields: some LexData. *)
Indeterminate ==
  [fn |-> "?", ids |-> <<>>, comments |-> <<>>, tokens |-> <<>>,
   readed_bytes |-> 0]

(* A get_lex() that reads the element added last. *)
get_lex_back(ld, i) == IF ld = <<>> THEN Indeterminate ELSE ld[Len(ld)]

(* get_lex(i, output): output = lex_data[i] *)
get_lex(ld, i) ==
  IF i >= 0 /\ i < Len(ld) THEN ld[i + 1] ELSE Indeterminate

(***************************************************************************)
(* Evaluator (cppillr/run.cpp).  A VM value holds the stack of struct VM;  *)
(* ub is set once the walk has undefined behaviour: a nullptr node is      *)
(* dereferenced, or the divisor of / or % is 0 (or INT_MIN / -1).          *)
(***************************************************************************)
VMInit == [stack |-> <<>>, ub |-> FALSE]

BinOp(op, x, y) ==
  CASE op = Ord("+") -> x + y
    [] op = Ord("-") -> x - y
    [] op = Ord("*") -> x * y
    [] op = Ord("/") -> CDiv(x, y)
    [] op = Ord("%") -> CMod(x, y)
    [] OTHER -> x

BinOpUndefined(op, x, y) ==
  op \in {Ord("/"), Ord("%")} /\ (y = 0 \/ (x = IntMin /\ y = -1))

UnaryOp(op, x) ==
  CASE op = Ord("-") -> -x
    [] op = Ord("!") -> IF x = 0 THEN 1 ELSE 0
    [] op = Ord("~") -> -x - 1
    [] OTHER -> x

SetTop(stack, x) == [stack EXCEPT ![Len(stack)] = x]

RECURSIVE run_node(_, _)
RECURSIVE run_stmts(_, _, _)

(* The UnaryExpr case of run_node() after the operand has run. *)
run_unary(n, v) ==
  IF v.ub \/ v.stack = <<>> THEN v
  ELSE [v EXCEPT !.stack = SetTop(@, UnaryOp(n.op, @[Len(@)]))]

(* The BinExpr case of run_node() after lhs and rhs have run. *)
run_binary(n, v) ==
  LET k == Len(v.stack)
  IN IF v.ub \/ k < 2 THEN v
     ELSE IF BinOpUndefined(n.op, v.stack[k - 1], v.stack[k])
     THEN [v EXCEPT !.ub = TRUE]
     ELSE [v EXCEPT !.stack =
             SetTop(SubSeq(@, 1, k - 1),
                    BinOp(n.op, v.stack[k - 1], v.stack[k]))]

(* run_node() on an expression or statement node. *)
run_node(n, vm) ==
  IF vm.ub THEN vm
  ELSE
  CASE n.kind = "nullptr" -> [vm EXCEPT !.ub = TRUE]
    [] n.kind = "UnaryExpr" -> run_unary(n, run_node(n.operand, vm))
    [] n.kind = "BinExpr" ->
         run_binary(n, run_node(n.rhs, run_node(n.lhs, vm)))
    [] n.kind = "Literal" -> [vm EXCEPT !.stack = Append(@, n.value)]
    [] n.kind = "Return" ->
         IF n.expr # NULL THEN run_node(n.expr, vm) ELSE vm
    [] n.kind = "CompoundStmt" -> run_stmts(n.stmts, 1, vm)
    [] OTHER -> vm

(* The loop over the statements of a CompoundStmt. *)
run_stmts(stmts, k, vm) ==
  IF k > Len(stmts) THEN vm
  ELSE run_stmts(stmts, k + 1, run_node(stmts[k], vm))

MainName == <<"m", "a", "i", "n">>

(* The candidates of run::run(): the functions named main, each as         *)
(* <<index into parser_data, index into its functions>> (0-based).         *)
RECURSIVE candidates_from(_, _, _)
candidates_from(pdata, d, k) ==
  IF d >= Len(pdata) THEN <<>>
  ELSE IF k >= Len(pdata[d + 1].functions) THEN candidates_from(pdata, d + 1, 0)
  ELSE (IF pdata[d + 1].functions[k + 1].name = MainName
        THEN << <<d, k>> >> ELSE <<>>)
       \o candidates_from(pdata, d, k + 1)

main_candidates(pdata) == candidates_from(pdata, 0, 0)

(* A status taken from the top of the stack. *)
run_status_top(vm) ==
  IF vm.stack # <<>> THEN vm.stack[Len(vm.stack)] ELSE 0

(* The status run::run() returns once main's stack is known. *)
run_status(vm) == IF vm.stack # <<>> THEN vm.stack[1] ELSE 0

(* The end of run::run() once the walk of block has left vm. *)
run_result(block, vm) ==
  [ret |-> run_status(vm), exited |-> FALSE, ub |-> vm.ub, block |-> block,
   out |-> <<>>, stack |-> vm.stack]

(* The Function case of run_node() for f once the body is b, the block it  *)
(* had or the result of phase 2: "error parsing main() function body" and  *)
(* exit(1) without a block.                                                *)
run_body(f, b) ==
  IF b.exited \/ b.node = NULL
  THEN [ret |-> 1, exited |-> TRUE, ub |-> FALSE, block |-> NULL,
        out |-> IF b.exited THEN <<>>
                ELSE << <<"error parsing %s() function body", f.name>> >>,
        stack |-> <<>>]
  ELSE run_result(b.node, run_node(b.node, VMInit))

(* p.lex_data[i]: a read outside the vector yields some LexData. *)
lex_data_at(lexd, i) ==
  IF i >= 0 /\ i < Len(lexd) THEN lexd[i + 1] ELSE Indeterminate

(* A Function case of run_node() that parses the body every time. *)
needs_phase2_always(f) == TRUE

(* The Function case of run_node(): if (!f->body->block) *)
needs_phase2(f) == f.body.block = NULL

(* The Function case of run_node() for f: phase 2 on its body when it is   *)
(* still unparsed, then the walk.  [ret, exited, ub, block, out, stack].   *)
run_function(lexd, f, binary) ==
  run_body(f, IF needs_phase2(f)
              THEN parse_function_body(lex_data_at(lexd, f.body.lex_i), f,
                                       binary)
              ELSE PResult(0, f.body.block))

(* A run::run() that executes main whenever there is a candidate. *)
runs_main_any(cands) == Len(cands) >= 1

(* Which candidate run::run() executes: the only one. *)
runs_main(cands) == Len(cands) = 1

(* run::run() after the call of main, r its result. *)
(* A walk that stores the block in the first function of the first file. *)
run_main_first(pdata, d, k, r) ==
  [ret |-> r.ret, exited |-> r.exited, ub |-> r.ub, out |-> r.out,
   stack |-> r.stack,
   parsed |-> IF needs_phase2(pdata[d].functions[k]) THEN 1 ELSE 0,
   pdata |-> [pdata EXCEPT ![1].functions[1].body.block = r.block]]

run_main(pdata, d, k, r) ==
  [ret |-> r.ret, exited |-> r.exited, ub |-> r.ub, out |-> r.out,
   stack |-> r.stack,
   parsed |-> IF needs_phase2(pdata[d].functions[k]) THEN 1 ELSE 0,
   pdata |-> [pdata EXCEPT ![d].functions[k].body.block = r.block]]

(* run::run(options, pool, prog): [ret, exited, ub, out, stack, parsed,    *)
(* pdata], out what it prints, stack the stack of its VM and parsed the    *)
(* number of calls of parse_function_body().                               *)
run(lexd, pdata, binary) ==
  LET cands == main_candidates(pdata)
      d == cands[1][1] + 1
      k == cands[1][2] + 1
  IN IF ~runs_main(cands)
     THEN [ret |-> 1, exited |-> FALSE, ub |-> FALSE, pdata |-> pdata,
           stack |-> <<>>, parsed |-> 0,
           out |-> << IF cands = <<>> THEN "no main() function found"
                      ELSE "multiple main() functions found:" >>]
     ELSE run_main(pdata, d, k,
                   run_function(lexd, pdata[d].functions[k], binary))

(***************************************************************************)
(* Bounds of the model and the input files                                 *)
(***************************************************************************)
MaxThreads == 2
MaxFiles == 2

(* The files the command line can name, in the order it names them. *)
Files ==
  << [fn |-> "a.cpp",
      text |-> <<"i","n","t"," ","f","(",")","{","}",LF>>],
     [fn |-> "b.cpp",
      text |-> <<"i","n","t"," ","m","a","i","n","(",")","{",
                 "r","e","t","u","r","n"," ","2","+","1",";","}",LF>>],
     [fn |-> "c.cpp",
      text |-> <<"v","o","i","d"," ","g","(","i","n","t"," ","x",")","{","}",
                 LF,"i","n","t"," ","h","(",")","{","{","}","}">>],
     [fn |-> "d.cpp", text |-> <<>>],
     [fn |-> "e.cpp",
      text |-> <<"i","n","t"," ","m","a","i","n","(",")","{",
                 "r","e","t","u","r","n"," ","1",";","}",LF,
                 "i","n","t"," ","m","a","i","n","(",")","{",
                 "r","e","t","u","r","n"," ","2",";","}",LF>>] >>

FileNames == {Files[k].fn : k \in 1..Len(Files)}

(* The disk that holds these files. *)
Disk ==
  [fn \in FileNames |->
     Files[CHOOSE k \in 1..Len(Files) : Files[k].fn = fn].text]

(***************************************************************************)
(* State                                                                   *)
(***************************************************************************)
VARIABLES
  parse_files,    \* Options::parse_files
  nthreads,       \* Options::threads
  strtol_binary,  \* whether the C library's strtol reads the prefix 0b
  file_text,      \* the files on disk: the characters of each file
  h_expr,         \* history: the expression the source was written from
  lexer,          \* the Lexer object of a run of Lexer::lex() taken by steps
  m_running,      \* thread_pool::m_running
  m_work,         \* thread_pool::m_work, the queue of tasks
  m_doingWork,    \* thread_pool::m_doingWork
  m_mutex,        \* the thread that holds thread_pool::m_mutex
  cv_waiting,     \* the workers blocked in m_cv.wait()
  wpc,            \* each worker's position in worker() and in its task
  wfunc,          \* each worker's func
  wvars,          \* each worker's task locals: i, data
  mpc,            \* the position of the thread that owns the pool
  mfile,          \* the number of files the driver's loop has enqueued
  ret_value,      \* run_with_options' ret_value
  stdout,         \* what run::run() has printed
  vm_stack,       \* the stack of run::run()'s VM
  h_ub,           \* history: the walk had undefined behaviour
  h_parses,       \* history: the number of parse_function_body() calls
  h_walks,        \* history: the number of walks of main's Function node
  lex_data,       \* Program::lex_data
  parser_data,    \* Program::parser_data
  lex_mutex,      \* the thread that holds Program::lex_mutex
  parser_mutex,   \* the thread that holds Program::parser_mutex
  exited,         \* std::exit() or a failed assert has ended the process
  h_enq,          \* history: the number of execute() calls
  h_deq,          \* history: the tasks dequeued, by their execute() number
  h_done,         \* history: how often each task has run to completion
  h_added         \* history: the add_lex() calls: index returned, size before

poolVars == <<m_running, m_work, m_doingWork, m_mutex, cv_waiting>>
workerVars == <<wpc, wfunc, wvars>>
progVars == <<lex_data, parser_data, lex_mutex, parser_mutex>>
histVars == <<h_enq, h_deq, h_done, h_added>>
(* What the steps of the pipeline leave alone: the options, the files and  *)
(* the Lexer that is run by steps.                                         *)
inputVars ==
  <<parse_files, nthreads, strtol_binary, file_text, h_expr, lexer>>
outVars == <<ret_value, stdout, vm_stack, h_ub, h_parses, h_walks>>
vars == <<inputVars, poolVars, workerVars, mpc, mfile, outVars, progVars,
          exited, histVars>>

(* Lexer lexer; lexer.lex(fn); lexer.move_data() on an openable file. *)
Lexer_lex(fn) == lex_text(fn, file_text[fn])

(* std::fopen(fn, "r") yields a file. *)
fopen(fn) == fn \in DOMAIN file_text

(* The values an int that was never initialized can hold. *)
IndeterminateInts == {0, -1}

(* Lexer::lex() when fopen() fails: it returns ErrorOpeningFile before it  *)
(* touches data, and move_data() hands over the LexData of a new Lexer,    *)
(* whose readed_bytes was never set.                                       *)
lex_failed(rb) ==
  [exited |-> FALSE, result |-> "ErrorOpeningFile",
   data |-> [fn |-> "", ids |-> <<>>, comments |-> <<>>, tokens |-> <<>>,
             readed_bytes |-> rb]]

(* Lexer lexer; lexer.lex(fn); lexer.move_data(): the possible outcomes. *)
Lexer_results(fn) ==
  IF fopen(fn) THEN {Lexer_lex(fn)}
  ELSE {lex_failed(rb) : rb \in IndeterminateInts}

NoExpr == [kind |-> "none"]

NoThread == -1
MainThread == 0
Workers == 1..nthreads
NoTask == [kind |-> "none"]
NoVars == [i |-> -1, data |-> NULL]

(***************************************************************************)
(* Thread pool (utils/thread_pool.h)                                       *)
(***************************************************************************)
(* std::unique_lock on a mutex: the lock is taken when no thread holds it. *)
(* A mutex that excludes nobody. *)
can_lock_always(mutex) == TRUE

(* Whether a lock on mutex can be taken: nobody holds it. *)
can_lock(mutex) == mutex = NoThread

(* m_cv.notify_one(): one of the blocked workers, when there is one, goes  *)
(* on to take m_mutex again and to evaluate its predicate.                 *)
notify_one(pcs, x) == [pcs EXCEPT ![x] = "lock"]

(* m_cv.notify_all() *)
notify_all(pcs) ==
  [x \in DOMAIN pcs |-> IF x \in cv_waiting THEN "lock" ELSE pcs[x]]

(* A queue that grows at its front. *)
push_front(work, task) == <<task>> \o work

(* The queue after m_work.push(task). *)
push(work, task) == Append(work, task)

(* thread_pool::execute(task) by a thread whose worker positions are pcs   *)
(* once the call returns: assert(m_running), then push and notify_one      *)
(* under m_mutex.                                                          *)
execute(task, pcs) ==
  /\ can_lock(m_mutex)
  /\ IF ~m_running
     THEN /\ exited' = TRUE
          /\ wpc' = pcs
          /\ UNCHANGED <<m_work, cv_waiting, h_enq, h_done>>
     ELSE /\ m_work' = push(m_work, [task EXCEPT !.seq = h_enq + 1])
          /\ h_enq' = h_enq + 1
          /\ h_done' = Append(h_done, 0)
          /\ IF cv_waiting = {}
             THEN wpc' = pcs /\ cv_waiting' = cv_waiting
             ELSE \E x \in cv_waiting :
                    /\ wpc' = notify_one(pcs, x)
                    /\ cv_waiting' = cv_waiting \ {x}
          /\ UNCHANGED exited
  /\ UNCHANGED <<m_running, m_doingWork, m_mutex>>

(* A predicate of wait_all() that looks at the queue only. *)
wait_all_pred_queue == ~m_running \/ m_work = <<>>

(* The predicate of wait_all(). *)
wait_all_pred == ~m_running \/ (m_work = <<>> /\ m_doingWork = 0)

(* The predicate of the worker's m_cv.wait(). *)
worker_pred == ~m_running \/ m_work # <<>>

(* A worker that does not signal m_cvWait. *)
notify_wait_all_never(pc) == pc

(* m_cvWait.notify_all(): the owner blocked in wait_all() evaluates its    *)
(* predicate again.                                                        *)
notify_wait_all(pc) == IF pc = "wait_all_blocked" THEN "wait_all" ELSE pc

(* The position a worker takes up with the task it dequeued. *)
TaskStart(task) ==
  CASE task.kind = "lex" -> "lex"
    [] task.kind = "parse" -> "get_lex"
    [] OTHER -> "job"

(* worker(): while (m_running) *)
W_Loop(w) ==
  /\ ~exited /\ wpc[w] = "loop"
  /\ wpc' = [wpc EXCEPT ![w] = IF m_running THEN "lock" ELSE "exited"]
  /\ UNCHANGED <<inputVars, poolVars, wfunc, wvars, mpc, mfile, outVars,
                 progVars, exited, histVars>>

(* The task a worker dequeues: m_work.front(). *)
front(work) == Head(work)

(* worker(): the lock is taken and the predicate holds; the front task,    *)
(* when there is one, is dequeued and counted in m_doingWork.              *)
W_Take(w) ==
  /\ ~exited /\ wpc[w] = "lock" /\ can_lock(m_mutex) /\ worker_pred
  /\ IF m_work # <<>>
     THEN /\ wfunc' = [wfunc EXCEPT ![w] = front(m_work)]
          /\ m_doingWork' = m_doingWork + 1
          /\ m_work' = Tail(m_work)
          /\ h_deq' = Append(h_deq, front(m_work).seq)
          /\ wpc' = [wpc EXCEPT ![w] = TaskStart(front(m_work))]
     ELSE /\ wpc' = [wpc EXCEPT ![w] = "done"]
          /\ UNCHANGED <<wfunc, m_doingWork, m_work, h_deq>>
  /\ UNCHANGED <<inputVars, m_running, m_mutex, cv_waiting, wvars, mpc, mfile,
                 outVars, progVars, exited, h_enq, h_done, h_added>>

(* worker(): the lock is taken and the predicate does not hold; the worker *)
(* holds m_mutex until wait() releases it and blocks.                      *)
W_PredFalse(w) ==
  /\ ~exited /\ wpc[w] = "lock" /\ can_lock(m_mutex) /\ ~worker_pred
  /\ m_mutex' = w
  /\ wpc' = [wpc EXCEPT ![w] = "wait"]
  /\ UNCHANGED <<inputVars, m_running, m_work, m_doingWork, cv_waiting, wfunc,
                 wvars, mpc, mfile, outVars, progVars, exited, histVars>>

(* m_cv.wait(lock): releases m_mutex and blocks, in one step. *)
W_Wait(w) ==
  /\ ~exited /\ wpc[w] = "wait"
  /\ m_mutex' = NoThread
  /\ cv_waiting' = cv_waiting \cup {w}
  /\ wpc' = [wpc EXCEPT ![w] = "waiting"]
  /\ UNCHANGED <<inputVars, m_running, m_work, m_doingWork, wfunc, wvars, mpc,
                 mfile, outVars, progVars, exited, histVars>>

(* worker(): after the task, --m_doingWork and m_cvWait.notify_all() under *)
(* m_mutex.                                                                *)
W_Done(w) ==
  /\ ~exited /\ wpc[w] = "done" /\ can_lock(m_mutex)
  /\ m_doingWork' = m_doingWork - 1
  /\ mpc' = notify_wait_all(mpc)
  /\ wpc' = [wpc EXCEPT ![w] = "loop"]
  /\ wfunc' = [wfunc EXCEPT ![w] = NoTask]
  /\ h_done' = IF wfunc[w] = NoTask THEN h_done
               ELSE [h_done EXCEPT ![wfunc[w].seq] = @ + 1]
  /\ UNCHANGED <<inputVars, m_running, m_work, m_mutex, cv_waiting, wvars,
                 mfile, outVars, progVars, exited, h_enq, h_deq, h_added>>

(* wait_all(): the predicate is evaluated under m_mutex; the caller goes   *)
(* on to `after` when it holds and blocks in m_cvWait.wait() otherwise.    *)
wait_all(after) ==
  /\ ~exited /\ mpc = "wait_all" /\ can_lock(m_mutex)
  /\ mpc' = IF wait_all_pred THEN after ELSE "wait_all_blocked"
  /\ UNCHANGED <<inputVars, poolVars, workerVars, mfile, outVars, progVars,
                 exited, histVars>>

(* A spurious wakeup of m_cv.wait(): the worker takes m_mutex again and     *)
(* evaluates its predicate.                                                *)
W_Spurious(w) ==
  /\ ~exited /\ wpc[w] = "waiting"
  /\ cv_waiting' = cv_waiting \ {w}
  /\ wpc' = [wpc EXCEPT ![w] = "lock"]
  /\ UNCHANGED <<inputVars, m_running, m_work, m_doingWork, m_mutex, wfunc,
                 wvars, mpc, mfile, outVars, progVars, exited, histVars>>

(* A spurious wakeup of m_cvWait.wait() *)
M_Spurious ==
  /\ ~exited /\ mpc = "wait_all_blocked"
  /\ mpc' = "wait_all"
  /\ UNCHANGED <<inputVars, poolVars, workerVars, mfile, outVars, progVars,
                 exited, histVars>>

(* join_all(): m_running = false, without m_mutex. *)
J_Stop ==
  /\ ~exited /\ mpc = "join_all"
  /\ m_running' = FALSE
  /\ mpc' = "join_notify"
  /\ UNCHANGED <<inputVars, m_work, m_doingWork, m_mutex, cv_waiting,
                 workerVars, mfile, outVars, progVars, exited, histVars>>

(* join_all(): m_cv.notify_all() *)
J_Notify ==
  /\ ~exited /\ mpc = "join_notify"
  /\ wpc' = notify_all(wpc)
  /\ cv_waiting' = {}
  /\ mpc' = "join"
  /\ UNCHANGED <<inputVars, m_running, m_work, m_doingWork, m_mutex, wfunc,
                 wvars, mfile, outVars, progVars, exited, histVars>>

(* join_all(): every thread has been joined. *)
J_Join ==
  /\ ~exited /\ mpc = "join"
  /\ \A w \in Workers : wpc[w] = "exited"
  /\ mpc' = "joined"
  /\ UNCHANGED <<inputVars, poolVars, workerVars, mfile, outVars, progVars,
                 exited, histVars>>

(***************************************************************************)
(* The tasks of run_with_options (cppillr/cppillr.cpp), run by worker w    *)
(***************************************************************************)
(* The lex task: Lexer lexer; lexer.lex(fn); *)
T_Lex(w) ==
  /\ ~exited /\ wpc[w] = "lex"
  /\ \E r \in Lexer_results(wfunc[w].fn) :
        /\ exited' = r.exited
        /\ wvars' = [wvars EXCEPT ![w].data = r.data]
  /\ wpc' = [wpc EXCEPT ![w] = "add_lex"]
  /\ UNCHANGED <<inputVars, poolVars, wfunc, mpc, mfile, outVars, progVars,
                 histVars>>

(* prog.add_lex(): the lock on lex_mutex *)
T_AddLexLock(w) ==
  /\ ~exited /\ wpc[w] = "add_lex" /\ can_lock(lex_mutex)
  /\ lex_mutex' = w
  /\ wpc' = [wpc EXCEPT ![w] = "add_lex_locked"]
  /\ UNCHANGED <<inputVars, poolVars, wfunc, wvars, mpc, mfile, outVars,
                 lex_data, parser_data, parser_mutex, exited, histVars>>

(* prog.add_lex(): the index, the emplace_back and the unlock *)
T_AddLex(w) ==
  /\ ~exited /\ wpc[w] = "add_lex_locked"
  /\ lex_data' = Append(lex_data, wvars[w].data)
  /\ wvars' = [wvars EXCEPT ![w] = [i |-> add_lex_index(Len(lex_data)),
                                    data |-> NULL]]
  /\ h_added' = Append(h_added, [ret |-> add_lex_index(Len(lex_data)),
                                 before |-> Len(lex_data),
                                 data |-> wvars[w].data])
  /\ lex_mutex' = NoThread
  /\ wpc' = [wpc EXCEPT ![w] = "execute"]
  /\ UNCHANGED <<inputVars, poolVars, wfunc, mpc, mfile, outVars,
                 parser_data, parser_mutex, exited, h_enq, h_deq, h_done>>

(* The lex task: pool.execute() of the parse task that captures i *)
T_Execute(w) ==
  /\ ~exited /\ wpc[w] = "execute"
  /\ execute([kind |-> "parse", i |-> wvars[w].i, fn |-> wfunc[w].fn,
              seq |-> 0],
             [wpc EXCEPT ![w] = "done"])
  /\ wvars' = [wvars EXCEPT ![w] = NoVars]
  /\ UNCHANGED <<inputVars, wfunc, mpc, mfile, outVars, progVars, h_deq,
                 h_added>>

(* The parse task: prog.get_lex(i, data), the lock on lex_mutex *)
T_GetLexLock(w) ==
  /\ ~exited /\ wpc[w] = "get_lex" /\ can_lock(lex_mutex)
  /\ lex_mutex' = w
  /\ wpc' = [wpc EXCEPT ![w] = "get_lex_locked"]
  /\ UNCHANGED <<inputVars, poolVars, wfunc, wvars, mpc, mfile, outVars,
                 lex_data, parser_data, parser_mutex, exited, histVars>>

(* prog.get_lex(i, data): the copy and the unlock *)
T_GetLex(w) ==
  /\ ~exited /\ wpc[w] = "get_lex_locked"
  /\ wvars' = [wvars EXCEPT ![w] = [i |-> wfunc[w].i,
                                    data |-> get_lex(lex_data, wfunc[w].i)]]
  /\ lex_mutex' = NoThread
  /\ wpc' = [wpc EXCEPT ![w] = "parse"]
  /\ UNCHANGED <<inputVars, poolVars, wfunc, mpc, mfile, outVars, lex_data,
                 parser_data, parser_mutex, exited, histVars>>

(* The parse task: Parser parser(i); parser.parse(data); *)
T_Parse(w) ==
  /\ ~exited /\ wpc[w] = "parse"
  /\ \E r \in {Parser_parse(wvars[w].data, wvars[w].i)} :
        /\ exited' = r.exited
        /\ wvars' = [wvars EXCEPT ![w].data = r.data]
  /\ wpc' = [wpc EXCEPT ![w] = "add_parser_data"]
  /\ UNCHANGED <<inputVars, poolVars, wfunc, mpc, mfile, outVars, progVars,
                 histVars>>

(* prog.add_parser_data(): the lock on parser_mutex *)
T_AddParserLock(w) ==
  /\ ~exited /\ wpc[w] = "add_parser_data" /\ can_lock(parser_mutex)
  /\ parser_mutex' = w
  /\ wpc' = [wpc EXCEPT ![w] = "add_parser_data_locked"]
  /\ UNCHANGED <<inputVars, poolVars, wfunc, wvars, mpc, mfile, outVars,
                 lex_data, parser_data, lex_mutex, exited, histVars>>

(* prog.add_parser_data(): the emplace_back and the unlock *)
T_AddParser(w) ==
  /\ ~exited /\ wpc[w] = "add_parser_data_locked"
  /\ parser_data' = Append(parser_data, wvars[w].data)
  /\ parser_mutex' = NoThread
  /\ wvars' = [wvars EXCEPT ![w] = NoVars]
  /\ wpc' = [wpc EXCEPT ![w] = "done"]
  /\ UNCHANGED <<inputVars, poolVars, wfunc, mpc, mfile, outVars, lex_data,
                 lex_mutex, exited, histVars>>

(***************************************************************************)
(* The driver: run_with_options (cppillr/cppillr.cpp)                      *)
(***************************************************************************)
(* One turn of the loop over options.parse_files: pool.execute(lex task) *)
M_Execute ==
  /\ ~exited /\ mpc = "execute"
  /\ execute([kind |-> "lex", fn |-> parse_files[mfile + 1], seq |-> 0], wpc)
  /\ mfile' = mfile + 1
  /\ mpc' = IF mfile + 1 = Len(parse_files) THEN "wait_all" ELSE "execute"
  /\ UNCHANGED <<inputVars, wfunc, wvars, outVars, progVars, h_deq, h_added>>

(* pool.wait_all() *)
M_WaitAll == wait_all("run")

(* ret_value = run::run(options, pool, prog) *)
M_Run ==
  /\ ~exited /\ mpc = "run"
  /\ \E r \in {run(lex_data, parser_data, strtol_binary)} :
        /\ ret_value' = r.ret
        /\ stdout' = stdout \o r.out
        /\ vm_stack' = r.stack
        /\ h_ub' = r.ub
        /\ h_parses' = h_parses + r.parsed
        /\ h_walks' = h_walks + (IF runs_main(main_candidates(parser_data))
                                  THEN 1 ELSE 0)
        /\ parser_data' = r.pdata
        /\ exited' = (r.exited \/ r.ub)
  /\ mpc' = "join_all"
  /\ UNCHANGED <<inputVars, poolVars, workerVars, mfile, lex_data, lex_mutex,
                 parser_mutex, histVars>>

OutInit ==
  /\ ret_value = 0 /\ stdout = <<>>
  /\ vm_stack = <<>> /\ h_ub = FALSE /\ h_parses = 0 /\ h_walks = 0

PoolInit ==
  /\ m_running = TRUE
  /\ m_work = <<>>
  /\ m_doingWork = 0
  /\ m_mutex = NoThread
  /\ cv_waiting = {}
  /\ wpc = [w \in Workers |-> "loop"]
  /\ wfunc = [w \in Workers |-> NoTask]
  /\ wvars = [w \in Workers |-> NoVars]
  /\ exited = FALSE
  /\ h_enq = 0 /\ h_deq = <<>> /\ h_done = <<>> /\ h_added = <<>>

(* No Lexer is run by steps. *)
NoLexer == [state |-> "None"]

ProgInit ==
  /\ lex_data = <<>> /\ parser_data = <<>>
  /\ lex_mutex = NoThread /\ parser_mutex = NoThread
  /\ lexer = NoLexer

Init ==
  /\ \E n \in 0..MaxFiles : parse_files = [k \in 1..n |-> Files[k].fn]
  /\ nthreads \in 0..MaxThreads
  /\ strtol_binary = FALSE
  /\ file_text = Disk
  /\ h_expr = NoExpr
  /\ PoolInit /\ ProgInit
  /\ mpc = IF parse_files = <<>> THEN "wait_all" ELSE "execute"
  /\ mfile = 0
  /\ OutInit

Next ==
  \/ M_Execute
  \/ M_WaitAll
  \/ M_Run
  \/ J_Stop
  \/ J_Notify
  \/ J_Join
  \/ M_Spurious
  \/ \E w \in Workers : W_Spurious(w)
  \/ \E w \in Workers : W_Loop(w)
  \/ \E w \in Workers : W_Take(w)
  \/ \E w \in Workers : W_PredFalse(w)
  \/ \E w \in Workers : W_Wait(w)
  \/ \E w \in Workers : W_Done(w)
  \/ \E w \in Workers : T_Lex(w)
  \/ \E w \in Workers : T_AddLexLock(w)
  \/ \E w \in Workers : T_AddLex(w)
  \/ \E w \in Workers : T_Execute(w)
  \/ \E w \in Workers : T_GetLexLock(w)
  \/ \E w \in Workers : T_GetLex(w)
  \/ \E w \in Workers : T_Parse(w)
  \/ \E w \in Workers : T_AddParserLock(w)
  \/ \E w \in Workers : T_AddParser(w)

Spec == Init /\ [][Next]_vars

(* The same program when one of the files it is given cannot be opened. *)
MissingInit ==
  /\ \E n \in 1..MaxFiles : parse_files = [k \in 1..n |-> Files[k].fn]
  /\ \E k \in 1..Len(parse_files) :
       file_text = [fn \in FileNames \ {parse_files[k]} |-> Disk[fn]]
  /\ nthreads \in 0..MaxThreads
  /\ strtol_binary = FALSE
  /\ h_expr = NoExpr
  /\ PoolInit /\ ProgInit
  /\ mpc = "execute"
  /\ mfile = 0
  /\ OutInit

MissingSpec == MissingInit /\ [][Next]_vars

(***************************************************************************)
(* The thread pool on its own (utils/thread_pool.h): an owner that calls   *)
(* execute(), wait_all() and the destructor in any order, and tasks that   *)
(* call execute() themselves.  A task [kind |-> "job", spawn |-> d]        *)
(* enqueues one task with spawn d - 1 when d > 0 and returns.              *)
(***************************************************************************)
MaxJobs == 2
MaxSpawn == 1

(* The owner calls execute(). *)
P_Execute ==
  /\ ~exited /\ mpc = "owner" /\ mfile < MaxJobs
  /\ \E d \in 0..MaxSpawn :
       execute([kind |-> "job", spawn |-> d, seq |-> 0], wpc)
  /\ mfile' = mfile + 1
  /\ UNCHANGED <<inputVars, wfunc, wvars, mpc, outVars, progVars, h_deq,
                 h_added>>

(* The owner calls wait_all(). *)
P_CallWaitAll ==
  /\ ~exited /\ mpc = "owner"
  /\ mpc' = "wait_all"
  /\ UNCHANGED <<inputVars, poolVars, workerVars, mfile, outVars, progVars,
                 exited, histVars>>

(* wait_all() in the owner's thread. *)
P_WaitAll == wait_all("owner")

(* The owner destroys the pool: ~thread_pool() calls join_all(). *)
P_Destroy ==
  /\ ~exited /\ mpc = "owner"
  /\ mpc' = "join_all"
  /\ UNCHANGED <<inputVars, poolVars, workerVars, mfile, outVars, progVars,
                 exited, histVars>>

(* func() of a job in worker w. *)
T_Job(w) ==
  /\ ~exited /\ wpc[w] = "job"
  /\ IF wfunc[w].spawn > 0
     THEN execute([kind |-> "job", spawn |-> wfunc[w].spawn - 1, seq |-> 0],
                  [wpc EXCEPT ![w] = "done"])
     ELSE /\ wpc' = [wpc EXCEPT ![w] = "done"]
          /\ UNCHANGED <<poolVars, exited, h_enq, h_done>>
  /\ UNCHANGED <<inputVars, wfunc, wvars, mpc, mfile, outVars, progVars,
                 h_deq, h_added>>

PoolSpecInit ==
  /\ parse_files = <<>>
  /\ nthreads \in 0..MaxThreads
  /\ strtol_binary = FALSE
  /\ file_text = Disk
  /\ h_expr = NoExpr
  /\ PoolInit /\ ProgInit
  /\ mpc = "owner"
  /\ mfile = 0
  /\ OutInit

PoolWorker(w) ==
  \/ W_Loop(w) \/ W_Take(w) \/ W_PredFalse(w) \/ W_Wait(w) \/ W_Done(w)
  \/ T_Job(w)

PoolNext ==
  \/ P_Execute
  \/ P_CallWaitAll
  \/ P_WaitAll
  \/ P_Destroy
  \/ J_Stop
  \/ J_Notify
  \/ J_Join
  \/ M_Spurious
  \/ \E w \in Workers : W_Spurious(w)
  \/ \E w \in Workers : W_Loop(w)
  \/ \E w \in Workers : W_Take(w)
  \/ \E w \in Workers : W_PredFalse(w)
  \/ \E w \in Workers : W_Wait(w)
  \/ \E w \in Workers : W_Done(w)
  \/ \E w \in Workers : T_Job(w)

PoolSpec == PoolSpecInit /\ [][PoolNext]_vars

(* The pool under fair scheduling: a worker, or the owner inside           *)
(* wait_all(), that can take a step again and again takes one.  Spurious   *)
(* wakeups and the owner's calls are owed to nobody.                       *)
PoolFairSpec ==
  /\ PoolSpecInit /\ [][PoolNext]_vars
  /\ SF_vars(P_WaitAll)
  /\ \A w \in 1..MaxThreads : SF_vars(w \in Workers /\ PoolWorker(w))

(***************************************************************************)
(* The lexer, the parser and the evaluator on their own: the files are     *)
(* lexed and parsed one after the other, in the order of the command line, *)
(* and run::run() is called.  The sources are the files above, or a single *)
(* file int main(){ return E; } with E written from operands, binary       *)
(* operators between them and at most one pair of parentheses.             *)
(***************************************************************************)
MaxOps == 2

(* The literals E is written with and the int each denotes in C++. *)
Literals ==
  << [text |-> <<"7">>, value |-> 7],
     [text |-> <<"0", "1", "0">>, value |-> 8],
     [text |-> <<"0", "x", "1", "F">>, value |-> 31] >>

BinaryOps == {"+", "-", "*", "/", "%"}

(* The parentheses around the operands i..j; <<0, 0>> for none. *)
Parens(n) ==
  {<<0, 0>>} \cup {p \in (1..n) \X (1..n) : p[1] < p[2]}

(* E: operands lits[1..n+1] (indexes into Literals), ops[k] between        *)
(* operand k and operand k + 1.                                            *)
Exprs ==
  UNION {{[lits |-> l, ops |-> o, paren |-> p] :
            l \in [1..(n + 1) -> 1..Len(Literals)],
            o \in [1..n -> BinaryOps],
            p \in Parens(n + 1)} : n \in 0..MaxOps}

RECURSIVE ExprText(_, _)
(* The characters of E from operand k on. *)
ExprText(e, k) ==
  (IF e.paren[1] = k THEN <<"(">> ELSE <<>>)
  \o Literals[e.lits[k]].text
  \o (IF e.paren[2] = k THEN <<")">> ELSE <<>>)
  \o (IF k > Len(e.ops) THEN <<>> ELSE <<e.ops[k]>> \o ExprText(e, k + 1))

ProgramText(e) ==
  <<"i","n","t"," ","m","a","i","n","(",")","{"," ",
    "r","e","t","u","r","n"," ">> \o ExprText(e, 1) \o <<";"," ","}">>

(* The files are lexed and parsed in order: Lexer::lex() and add_lex() of  *)
(* the next file.                                                          *)
E_Lex ==
  /\ ~exited /\ mpc = "lex" /\ mfile < Len(parse_files)
  /\ \E r \in Lexer_results(parse_files[mfile + 1]) :
       /\ exited' = r.exited
       /\ lex_data' = Append(lex_data, r.data)
  /\ mpc' = "parse"
  /\ UNCHANGED <<inputVars, poolVars, workerVars, mfile, outVars,
                 parser_data, lex_mutex, parser_mutex, histVars>>

(* get_lex(), Parser::parse() and add_parser_data() of the file just       *)
(* lexed.                                                                  *)
E_Parse ==
  /\ ~exited /\ mpc = "parse"
  /\ \E r \in {Parser_parse(get_lex(lex_data, mfile), mfile)} :
       /\ exited' = r.exited
       /\ parser_data' = Append(parser_data, r.data)
  /\ mfile' = mfile + 1
  /\ mpc' = IF mfile + 1 = Len(parse_files) THEN "run" ELSE "lex"
  /\ UNCHANGED <<inputVars, poolVars, workerVars, outVars, lex_data,
                 lex_mutex, parser_mutex, histVars>>

EvalInit ==
  /\ \/ /\ h_expr \in Exprs
        /\ parse_files = <<"main.cpp">>
        /\ file_text = [fn \in {"main.cpp"} |-> ProgramText(h_expr)]
     \/ /\ h_expr = NoExpr
        /\ \E n \in 0..MaxFiles : parse_files \in [1..n -> FileNames]
        /\ file_text = Disk
  /\ nthreads = 0
  /\ strtol_binary = FALSE
  /\ PoolInit /\ ProgInit
  /\ mpc = IF parse_files = <<>> THEN "run" ELSE "lex"
  /\ mfile = 0
  /\ OutInit

EvalNext == E_Lex \/ E_Parse \/ M_Run

EvalSpec == EvalInit /\ [][EvalNext]_vars

(***************************************************************************)
(* Function bodies: a single file int main(){ S1 S2 ... } whose statements *)
(* are drawn from the texts below, lexed, parsed and run as above.  After  *)
(* run::run() the Function node of main can be walked again.               *)
(***************************************************************************)
MaxStmts == 2
MaxWalks == 2

RETURN == <<"r", "e", "t", "u", "r", "n">>

(* The statement texts: inside and outside the grammar of phase 2. *)
BodyStmts ==
  << <<";">>,
     RETURN \o <<";">>,
     RETURN \o <<" ", "5", ";">>,
     RETURN \o <<" ", "2", ";">>,
     RETURN \o <<" ", "6", "/", "0", ";">>,
     RETURN \o <<" ", "5">>,
     RETURN \o <<" ", "5", "+", ";">>,
     RETURN \o <<" ", "5", "*", ";">>,
     RETURN \o <<" ", "5", "+", "=", "2", ";">>,
     RETURN \o <<" ", "-", "2", ";">>,
     RETURN \o <<" ", "5", " ", "2", ";">>,
     <<"i", "n", "t", ";">> >>

Bodies ==
  UNION {[1..n -> 1..Len(BodyStmts)] : n \in 0..MaxStmts}

RECURSIVE BodyText(_, _)
(* The characters of the statements of b from statement k on. *)
BodyText(b, k) ==
  IF k > Len(b) THEN <<>>
  ELSE <<" ">> \o BodyStmts[b[k]] \o BodyText(b, k + 1)

FunctionText(b) ==
  <<"i","n","t"," ","m","a","i","n","(",")","{">> \o BodyText(b, 1)
  \o <<" ", "}">>

(* run_node(candidates.front(), prog, vm) once more, with a new VM. *)
R_RunNode ==
  /\ ~exited /\ mpc = "join_all" /\ h_walks >= 1 /\ h_walks < MaxWalks
  /\ \E r \in {run(lex_data, parser_data, strtol_binary)} :
        /\ parser_data' = r.pdata
        /\ exited' = (r.exited \/ r.ub)
        /\ h_parses' = h_parses + r.parsed
  /\ h_walks' = h_walks + 1
  /\ UNCHANGED <<inputVars, poolVars, workerVars, mpc, mfile, ret_value,
                 stdout, vm_stack, h_ub, lex_data, lex_mutex, parser_mutex,
                 histVars>>

BodyInit ==
  /\ h_expr \in {[kind |-> "body", stmts |-> b] : b \in Bodies}
  /\ parse_files = <<"main.cpp">>
  /\ file_text = [fn \in {"main.cpp"} |-> FunctionText(h_expr.stmts)]
  /\ nthreads = 0
  /\ strtol_binary = FALSE
  /\ PoolInit /\ ProgInit
  /\ mpc = "lex"
  /\ mfile = 0
  /\ OutInit

BodyNext == E_Lex \/ E_Parse \/ M_Run \/ R_RunNode

BodySpec == BodyInit /\ [][BodyNext]_vars

(***************************************************************************)
(* The lexer on its own: a single file written from at most MaxPieces      *)
(* pieces of one group is lexed.  The groups are operator characters,      *)
(* comments, identifiers and literals, digits, the characters that make    *)
(* the lexer look one character ahead, and preprocessor lines.             *)
(***************************************************************************)
MaxPieces == 3

(* Operator characters and the blank. *)
PunctPieces == <<"+", "-", "=", ">", "<", "&", "~", "!", " ">>

(* Comments, with body the text of the comment without its delimiters and  *)
(* surrounding whitespace, a blank and a punctuator.                       *)
CommentPieces ==
  << [kind |-> "Comment", text |-> <<"/", "/", "a", LF>>, body |-> <<"a">>],
     [kind |-> "Comment", text |-> <<"/", "/", " ", "b", " ", LF>>,
      body |-> <<"b">>],
     [kind |-> "Comment", text |-> <<"/", "*", "c", "*", "/">>,
      body |-> <<"c">>],
     [kind |-> "Comment", text |-> <<"/", "*", " ", "d", " ", "*", "/">>,
      body |-> <<"d">>],
     [kind |-> "Comment", text |-> <<"/", "*", "e", "*", "f", "*", "/">>,
      body |-> <<"e", "*", "f">>],
     [kind |-> "Space", text |-> <<" ">>, body |-> <<>>],
     [kind |-> "Punctuator", text |-> <<";">>, body |-> <<>>] >>

(* Identifiers and literals: source is the text of the token in the file   *)
(* (between the delimiters for strings and characters) and value the       *)
(* characters it denotes.                                                  *)
IdPieces ==
  << [kind |-> "Identifier", text |-> <<"a", "b">>,
      source |-> <<"a", "b">>, value |-> <<"a", "b">>],
     [kind |-> "Identifier", text |-> <<"x", "_", "1">>,
      source |-> <<"x", "_", "1">>, value |-> <<"x", "_", "1">>],
     [kind |-> "NumericConstant", text |-> <<"1", "2">>,
      source |-> <<"1", "2">>, value |-> <<"1", "2">>],
     [kind |-> "NumericConstant", text |-> <<"0", "x", "1", "F">>,
      source |-> <<"0", "x", "1", "F">>, value |-> <<"0", "x", "1", "F">>],
     [kind |-> "NumericConstant", text |-> <<"1", ".", "5", "f">>,
      source |-> <<"1", ".", "5", "f">>, value |-> <<"1", ".", "5", "f">>],
     [kind |-> "Literal", text |-> <<DQUOTE, "a", " ", "b", DQUOTE>>,
      source |-> <<"a", " ", "b">>, value |-> <<"a", " ", "b">>],
     [kind |-> "Literal",
      text |-> <<DQUOTE, "a", BACKSLASH, "n", "b", DQUOTE>>,
      source |-> <<"a", BACKSLASH, "n", "b">>, value |-> <<"a", LF, "b">>],
     [kind |-> "Literal",
      text |-> <<DQUOTE, "q", BACKSLASH, DQUOTE, DQUOTE>>,
      source |-> <<"q", BACKSLASH, DQUOTE>>, value |-> <<"q", DQUOTE>>],
     [kind |-> "CharConstant", text |-> <<"'", "c", "'">>,
      source |-> <<"c">>, value |-> <<"c">>],
     [kind |-> "CharConstant", text |-> <<"'", BACKSLASH, "t", "'">>,
      source |-> <<BACKSLASH, "t">>, value |-> <<TAB>>] >>

(* Digits of octal and decimal literals and the blank. *)
DigitPieces == <<"0", "7", "8", " ">>

(* Characters after which the lexer reads one more character before it     *)
(* decides ('+', '.', '0', '<', '='), and characters that follow them.     *)
AheadPieces == <<"+", ".", "0", "<", "=", "a", "7", " ">>

(* Pieces of preprocessor lines: the start of a directive, a newline, a    *)
(* line comment with the newline that ends it, code, a newline escaped     *)
(* by a backslash, a block comment, and a '#' that begins a directive      *)
(* only where no directive is open.                                        *)
PreproPieces ==
  << [form |-> "directive",
      text |-> <<"#", "d", "e", "f", "i", "n", "e", " ", "A">>],
     [form |-> "newline", text |-> <<LF>>],
     [form |-> "newline", text |-> <<" ", "/", "/", " ", "c", LF>>],
     [form |-> "code", text |-> <<" ", "i", "n", "t", " ", "x", ";">>],
     [form |-> "escaped", text |-> <<" ", BACKSLASH, LF>>],
     [form |-> "space", text |-> <<" ", "/", "*", " ", "c", " ", "*", "/">>],
     [form |-> "directive", text |-> <<" ", "#", "x">>] >>

(* Block comments that end after one '*' or after a run of '*', a          *)
(* punctuator and a blank.                                                 *)
BlockPieces ==
  << [kind |-> "Comment", text |-> <<"/", "*", "a", "*", "/">>],
     [kind |-> "Comment", text |-> <<"/", "*", "*", "/">>],
     [kind |-> "Comment", text |-> <<"/", "*", "a", "*", "*", "/">>],
     [kind |-> "Comment", text |-> <<"/", "*", "*", "*", "/">>],
     [kind |-> "Punctuator", text |-> <<";">>],
     [kind |-> "Space", text |-> <<" ">>] >>

(* Words, the punctuators whose codes lie above that of '_', and the       *)
(* blank.                                                                  *)
BracePieces ==
  << <<"a">>, <<"i", "f">>, <<"{">>, <<"}">>, <<"|">>, <<"~">>, <<" ">> >>

PieceCount(g) ==
  CASE g = "punct" -> Len(PunctPieces)
    [] g = "comments" -> Len(CommentPieces)
    [] g = "ids" -> Len(IdPieces)
    [] g = "digits" -> Len(DigitPieces)
    [] g = "ahead" -> Len(AheadPieces)
    [] g = "prepro" -> Len(PreproPieces)
    [] g = "blocks" -> Len(BlockPieces)
    [] g = "braces" -> Len(BracePieces)

RECURSIVE LexText(_, _, _)
(* The characters of the pieces ps of group g from piece k on; identifiers *)
(* and literals are each followed by a blank.                              *)
LexText(g, ps, k) ==
  IF k > Len(ps) THEN <<>>
  ELSE (CASE g = "punct" -> <<PunctPieces[ps[k]]>>
          [] g = "comments" -> CommentPieces[ps[k]].text
          [] g = "ids" -> IdPieces[ps[k]].text \o <<" ">>
          [] g = "digits" -> <<DigitPieces[ps[k]]>>
          [] g = "ahead" -> <<AheadPieces[ps[k]]>>
          [] g = "prepro" -> PreproPieces[ps[k]].text
          [] g = "blocks" -> BlockPieces[ps[k]].text
          [] g = "braces" -> BracePieces[ps[k]])
       \o LexText(g, ps, k + 1)

LexInit ==
  /\ \E g \in {"punct", "comments", "ids", "digits", "ahead", "prepro",
               "blocks", "braces"} :
       \E n \in 0..MaxPieces :
         \E ps \in [1..n -> 1..PieceCount(g)] :
           h_expr = [kind |-> "text", group |-> g, pieces |-> ps]
  /\ parse_files = <<"main.cpp">>
  /\ file_text = [fn \in {"main.cpp"} |->
                    LexText(h_expr.group, h_expr.pieces, 1)]
  /\ nthreads = 0
  /\ strtol_binary = FALSE
  /\ PoolInit /\ ProgInit
  /\ mpc = "lex"
  /\ mfile = 0
  /\ OutInit

LexNext == E_Lex

LexSpec == LexInit /\ [][LexNext]_vars

(***************************************************************************)
(* Properties of the pipeline                                              *)
(***************************************************************************)
ToSet(seq) == {seq[k] : k \in 1..Len(seq)}

(* How often task number s has been dequeued. *)
Dequeued(s) == Cardinality({k \in 1..Len(h_deq) : h_deq[k] = s})

(* C1: when wait_all() returns while the pool is running, the queue is     *)
(* empty, no worker is executing a task, and every task passed to          *)
(* execute() so far, the parse tasks that the lex tasks enqueued included, *)
(* has been dequeued once and has run to completion once; no task ever     *)
(* completes twice.                                                        *)
C1_WaitAllBarrier ==
  /\ \A s \in 1..h_enq : h_done[s] <= 1 /\ Dequeued(s) <= 1
  /\ (mpc = "run" /\ m_running) =>
       /\ m_work = <<>>
       /\ \A w \in Workers :
            wfunc[w] = NoTask /\ wpc[w] \in {"loop", "lock", "wait", "waiting"}
       /\ \A s \in 1..h_enq : h_done[s] = 1 /\ Dequeued(s) = 1

(* wait_all() has returned after two lex tasks and the two parse tasks     *)
(* they enqueued, with two workers.                                        *)
C1_Witness == mpc = "run" /\ m_running /\ h_enq = 4 /\ nthreads = 2

(* C2: with at least one worker, a call of wait_all() eventually returns   *)
(* to the owner under fair scheduling, whatever tasks were enqueued and    *)
(* whatever tasks they enqueue.                                            *)
C2_WaitAllReturns ==
  (nthreads >= 1 /\ mpc \in {"wait_all", "wait_all_blocked"}) ~> (mpc = "owner")

(* The owner is blocked in wait_all() while the only worker runs a task    *)
(* that a task enqueued.                                                   *)
C2_Witness ==
  /\ mpc = "wait_all_blocked" /\ nthreads = 1
  /\ \E w \in Workers : wpc[w] = "done" /\ wfunc[w].seq = 2 /\ h_enq = 2
       /\ mfile = 1

(* The parse task t reads an index that add_lex() has returned for its     *)
(* file and that holds its file's lex result.                              *)
ValidParseTask(t) ==
  /\ t.i >= 0 /\ t.i < Len(lex_data)
  /\ lex_data[t.i + 1].fn = t.fn
  /\ \E k \in 1..Len(h_added) :
       h_added[k].ret = t.i /\ h_added[k].data.fn = t.fn

(* C3: a parse task is enqueued only after add_lex() of its file has       *)
(* returned the index it captures, and what get_lex(i) gives the parse     *)
(* task is the lex result of that file.                                    *)
C3_LexBeforeParse ==
  /\ \A k \in 1..Len(m_work) :
       m_work[k].kind = "parse" => ValidParseTask(m_work[k])
  /\ \A w \in Workers :
       wfunc[w].kind = "parse" =>
         /\ ValidParseTask(wfunc[w])
         /\ wpc[w] = "parse" =>
              wvars[w].data = Lexer_lex(wfunc[w].fn).data

(* A parse task of the first file has read index 1: the second file's lex  *)
(* result was stored first.                                                *)
C3_Witness ==
  \E w \in Workers :
    wpc[w] = "parse" /\ wfunc[w].fn = "a.cpp" /\ wvars[w].i = 1

(* The Program Store of a run that lexes and parses the files one after    *)
(* the other, in the order of the command line.                            *)
SeqLex == [k \in 1..Len(parse_files) |-> Lexer_lex(parse_files[k]).data]
SeqParse ==
  [k \in 1..Len(parse_files) |-> Parser_parse(SeqLex[k], k - 1).data]

(* A parse result with the lex index of each function body replaced by the *)
(* file whose lex result the index refers to in the store ld.              *)
Resolve(ld, pd) ==
  [fn |-> pd.fn,
   functions |->
     [k \in 1..Len(pd.functions) |->
        [pd.functions[k] EXCEPT
           !.body.lex_i = get_lex(ld, pd.functions[k].body.lex_i).fn]]]

(* C4 as stated: after wait_all() a pool of two or more workers leaves the *)
(* same set of lex results and the same set of parse results as the        *)
(* sequential run.                                                         *)
C4_SetEqual ==
  (mpc = "run" /\ nthreads >= 2) =>
    /\ ToSet(lex_data) = ToSet(SeqLex)
    /\ ToSet(parser_data) = ToSet(SeqParse)

(* C4: after wait_all() a pool of one worker leaves the store of the       *)
(* sequential run; a pool of two or more leaves the same set of lex        *)
(* results, and the same set of parse results once the lex index in each   *)
(* function body is read as the file it refers to, which is the file of    *)
(* the parse result.                                                       *)
C4_SetEqualUpToLexIndex ==
  mpc = "run" =>
    /\ nthreads = 1 => lex_data = SeqLex /\ parser_data = SeqParse
    /\ nthreads >= 2 =>
         /\ ToSet(lex_data) = ToSet(SeqLex)
         /\ {Resolve(lex_data, pd) : pd \in ToSet(parser_data)}
              = {Resolve(SeqLex, pd) : pd \in ToSet(SeqParse)}
         /\ \A pd \in ToSet(parser_data) :
              \A k \in 1..Len(pd.functions) :
                get_lex(lex_data, pd.functions[k].body.lex_i).fn = pd.fn

(* Two workers have stored the second file's lex result first. *)
C4_Witness ==
  /\ mpc = "run" /\ nthreads = 2
  /\ Len(lex_data) = 2 /\ lex_data[1].fn = "b.cpp" /\ Len(parser_data) = 2

(* C5: every add_lex() returned the number of lex results stored before    *)
(* it, no two calls returned the same index, and get_lex(i) yields the     *)
(* result that was added with index i whatever has been added since.       *)
C5_AddLexIndex ==
  /\ \A k \in 1..Len(h_added) :
       /\ h_added[k].ret = h_added[k].before
       /\ get_lex(lex_data, h_added[k].ret) = h_added[k].data
  /\ \A j, k \in 1..Len(h_added) :
       j # k => h_added[j].ret # h_added[k].ret

(* get_lex(0) has been called after a second add_lex(). *)
C5_Witness ==
  /\ Len(h_added) = 2
  /\ \E w \in Workers : wpc[w] = "parse" /\ wvars[w].i = 0

LexAccess(w) == wpc[w] \in {"add_lex_locked", "get_lex_locked"}
ParserAccess(w) == wpc[w] = "add_parser_data_locked"

(* C6: no two threads are in lex_data at the same time, no two in          *)
(* parser_data, the evaluator reads the store when no worker is in it, and *)
(* a store lock is held only by a thread inside add_lex(), get_lex() or    *)
(* add_parser_data(): not in execute(), in the pool's wait, in the lexer   *)
(* or in the parser.                                                       *)
C6_StoreLocks ==
  /\ \A v, w \in Workers : (LexAccess(v) /\ LexAccess(w)) => v = w
  /\ \A v, w \in Workers : (ParserAccess(v) /\ ParserAccess(w)) => v = w
  /\ mpc = "run" => \A w \in Workers : ~LexAccess(w) /\ ~ParserAccess(w)
  /\ lex_mutex # MainThread /\ parser_mutex # MainThread
  /\ \A w \in Workers :
       /\ lex_mutex = w <=> LexAccess(w)
       /\ parser_mutex = w <=> ParserAccess(w)

(* One worker is in lex_data while the other wants to enter it. *)
C6_Witness ==
  \E v, w \in Workers :
    v # w /\ LexAccess(v) /\ wpc[w] \in {"add_lex", "get_lex"}

(* C7: tasks are dequeued in the order execute() enqueued them. *)
C7_Fifo ==
  \A j, k \in 1..Len(h_deq) : j < k => h_deq[j] < h_deq[k]

(* Two workers have dequeued four tasks. *)
C7_Witness == Len(h_deq) = 4 /\ nthreads = 2 /\ m_running

(***************************************************************************)
(* Properties of the thread pool                                           *)
(***************************************************************************)
(* C8: once join_all() has set m_running to false, no worker dequeues a    *)
(* task; every task in the queue at that moment stays there.               *)
C8_TeardownAbandons == [][~m_running => h_deq' = h_deq]_vars

(***************************************************************************)
(* Properties of the lexer, the parser and the evaluator                   *)
(***************************************************************************)
Undefined == [ok |-> FALSE, v |-> 0]
Defined(x) == [ok |-> TRUE, v |-> x]

(* The value of vals[1] ops[1] vals[2] ... in C++: * / % bind tighter than *)
(* + - and operators of equal precedence associate to the left.  sum is    *)
(* the value of the terms before the operator addop and term the value of  *)
(* the term that ends at operand k.                                        *)
RECURSIVE RefFold(_, _, _, _, _, _)
RefFold(vals, ops, k, sum, addop, term) ==
  IF k > Len(ops)
  THEN Defined(IF addop = "+" THEN sum + term ELSE sum - term)
  ELSE IF ops[k] \in {"/", "%"} /\ vals[k + 1] = 0 THEN Undefined
  ELSE IF ops[k] = "*"
  THEN RefFold(vals, ops, k + 1, sum, addop, term * vals[k + 1])
  ELSE IF ops[k] = "/"
  THEN RefFold(vals, ops, k + 1, sum, addop, CDiv(term, vals[k + 1]))
  ELSE IF ops[k] = "%"
  THEN RefFold(vals, ops, k + 1, sum, addop, CMod(term, vals[k + 1]))
  ELSE RefFold(vals, ops, k + 1,
               IF addop = "+" THEN sum + term ELSE sum - term,
               ops[k], vals[k + 1])

RefFlat(vals, ops) == RefFold(vals, ops, 1, 0, "+", vals[1])

(* The value of e in C++, the parenthesised operands first. *)
RefValue(e) ==
  LET v == [k \in 1..Len(e.lits) |-> Literals[e.lits[k]].value]
      i == e.paren[1]
      j == e.paren[2]
      inner == RefFlat(SubSeq(v, i, j), SubSeq(e.ops, i, j - 1))
  IN IF i = 0 THEN RefFlat(v, e.ops)
     ELSE IF ~inner.ok THEN Undefined
     ELSE RefFlat(SubSeq(v, 1, i - 1) \o <<inner.v>> \o SubSeq(v, j + 1, Len(v)),
                  SubSeq(e.ops, 1, i - 1) \o SubSeq(e.ops, j, Len(e.ops)))

(* C9: for a single file int main(){ return E; } whose E has a value in    *)
(* C++, run::run() returns that value, with * / % binding tighter than     *)
(* + - and operators of equal precedence associating to the left; nothing  *)
(* is printed and the process goes on to return it as its status.          *)
C9_ExpressionValue ==
  (h_expr # NoExpr /\ mpc = "join_all" /\ RefValue(h_expr).ok) =>
    /\ ret_value = RefValue(h_expr).v
    /\ ~exited
    /\ stdout = <<>>

(* 7+010*0x1F has been evaluated to 255. *)
C9_Witness ==
  /\ h_expr # NoExpr /\ mpc = "join_all"
  /\ h_expr.lits = <<1, 2, 3>> /\ h_expr.ops = <<"+", "*">>
  /\ h_expr.paren = <<0, 0>>
  /\ ret_value = 255

(* No function body of the store has been through phase 2. *)
Unparsed(pdata) ==
  \A d \in 1..Len(pdata) :
    \A k \in 1..Len(pdata[d].functions) :
      pdata[d].functions[k].body.block = NULL

(* C10: when the parsed functions of all files hold no function named      *)
(* main, or more than one, run::run() prints the error and returns a       *)
(* status that is not 0, and no function body has been parsed in phase 2   *)
(* or walked.                                                              *)
C10_MainCount ==
  (mpc = "join_all" /\ Len(main_candidates(parser_data)) # 1) =>
    /\ ret_value # 0
    /\ stdout = << IF main_candidates(parser_data) = <<>>
                   THEN "no main() function found"
                   ELSE "multiple main() functions found:" >>
    /\ Unparsed(parser_data)
    /\ ~exited

(* run::run() has returned on two files with a main each. *)
C10_Witness ==
  /\ mpc = "join_all" /\ Len(parser_data) = 2
  /\ Len(main_candidates(parser_data)) = 2
  /\ ret_value = 1

(***************************************************************************)
(* Properties of function bodies                                           *)
(***************************************************************************)
(* main's body->block once run::run() has found exactly one main. *)
MainBlock ==
  LET c == main_candidates(parser_data)
  IN parser_data[c[1][1] + 1].functions[c[1][2] + 1].body.block

(* run::run() has walked main's body and returned. *)
Walked == mpc = "join_all" /\ h_walks >= 1 /\ ~exited

(* C11: when exactly one main exists and its body has been walked, the     *)
(* status run::run() returns is the value on top of the VM's stack, or 0   *)
(* when the stack is empty.                                                *)
C11_TopOfStack ==
  Walked =>
    ret_value = IF vm_stack = <<>> THEN 0 ELSE vm_stack[Len(vm_stack)]

(* C12: a Return ends the walk of main's body: the VM is left as the       *)
(* statements up to the first Return leave it, and no later statement has  *)
(* been evaluated.                                                         *)
C12_ReturnEnds ==
  (mpc = "join_all" /\ h_walks >= 1 /\ MainBlock # NULL
     /\ MainBlock.stmts # <<>>) =>
    LET first == run_node(MainBlock.stmts[1], VMInit)
    IN h_ub = first.ub /\ (~h_ub => vm_stack = first.stack)

InGrammar(b) == \A k \in 1..Len(b) : b[k] \in {1, 2, 3, 4, 5, 10}

(* C19: phase 2 accepts only the bodies written in its grammar: every     *)
(* other body ends in a fatal parse error, so that no statement tree is    *)
(* built and nothing is walked.                                            *)
C19_OnlyGrammar ==
  (mpc = "join_all" /\ h_walks >= 1 /\ ~InGrammar(h_expr.stmts)) =>
    /\ exited /\ ~h_ub
    /\ MainBlock = NULL

(* C20: a body of empty statements and one return 5; is parsed and walked, *)
(* and the status is 5.                                                    *)
C20_EmptyStatement ==
  (mpc = "join_all" /\ h_walks >= 1 /\ Len(h_expr.stmts) >= 1
     /\ \E k \in 1..Len(h_expr.stmts) :
          /\ h_expr.stmts[k] = 3
          /\ \A j \in 1..Len(h_expr.stmts) : j # k => h_expr.stmts[j] = 1) =>
    /\ ~exited
    /\ MainBlock # NULL
    /\ ret_value = 5

(***************************************************************************)
(* Properties of the pipeline when a file cannot be opened                 *)
(***************************************************************************)
IsEof(t) == t.kind = "Eof"

(* C14: every lex result in the store holds exactly one Eof token, and it  *)
(* is the last token of the result, whatever path the lex task was given.  *)
C14_OneEof ==
  \A k \in 1..Len(lex_data) :
    LET toks == lex_data[k].tokens
    IN /\ toks # <<>>
       /\ IsEof(toks[Len(toks)])
       /\ \A j \in 1..(Len(toks) - 1) : ~IsEof(toks[j])

(* The files of the command line that cannot be opened. *)
Unopened == {k \in 1..Len(parse_files) : ~fopen(parse_files[k])}

(* C15: once wait_all() has returned, every file that could not be opened  *)
(* has been reported, and every file has been through its lex task and its *)
(* parse task.                                                             *)
C15_OpenErrorReported ==
  (mpc = "run" /\ Unopened # {}) =>
    /\ Len(stdout) >= Cardinality(Unopened)
    /\ Len(lex_data) = Len(parse_files)
    /\ Len(parser_data) = Len(parse_files)
    /\ ~exited

(* wait_all() has returned although a.cpp could not be opened; b.cpp has   *)
(* been lexed and parsed.                                                  *)
C15_Witness ==
  /\ mpc = "run" /\ ~exited /\ Unopened = {1} /\ Len(parse_files) = 2
  /\ Len(parser_data) = 2
  /\ \E k \in 1..2 : parser_data[k].functions # <<>>

(***************************************************************************)
(* Properties of the lexer                                                 *)
(***************************************************************************)
(* The file of group g has been lexed. *)
Lexed(g) ==
  /\ mpc = "parse" /\ ~exited /\ Len(lex_data) = 1
  /\ h_expr.group = g

(* The tokens of the lexed file without its last token, the Eof. *)
LexedTokens == SubSeq(lex_data[1].tokens, 1, Len(lex_data[1].tokens) - 1)

(* The operators of two characters of C++ that these characters spell. *)
ValidTwo ==
  { <<"+", "+">>, <<"-", "-">>, <<"+", "=">>, <<"-", "=">>, <<"-", ">">>,
    <<"=", "=">>, <<"!", "=">>, <<"<", "=">>, <<">", "=">>, <<"<", "<">>,
    <<">", ">">>, <<"&", "&">>, <<"&", "=">> }

RECURSIVE Munch(_, _)
(* The payloads <<i, j>> of the operators of text from character k on,     *)
(* the longest operator first.                                             *)
Munch(text, k) ==
  IF k > Len(text) THEN <<>>
  ELSE IF text[k] = " " THEN Munch(text, k + 1)
  ELSE IF k < Len(text) /\ <<text[k], text[k + 1]>> \in ValidTwo
  THEN << <<Ord(text[k]), Ord(text[k + 1])>> >> \o Munch(text, k + 2)
  ELSE << <<Ord(text[k]), 0>> >> \o Munch(text, k + 1)

(* C16: the tokens of a text of operator characters and blanks are         *)
(* Punctuator tokens, one for each operator of the text read with the      *)
(* longest operator first, with the two characters of the operator as      *)
(* payload (the second 0 for an operator of one character); characters     *)
(* that a blank separates are never merged.                                *)
C16_MaximalMunch ==
  Lexed("punct") =>
    /\ \A k \in 1..Len(LexedTokens) : LexedTokens[k].kind = "Punctuator"
    /\ [k \in 1..Len(LexedTokens) |-> <<LexedTokens[k].i, LexedTokens[k].j>>]
         = Munch(file_text["main.cpp"], 1)

RECURSIVE CommentRuns(_, _, _)
(* The tokens expected of the comment pieces ps from piece k on: acc is    *)
(* the concatenated text of the comments since the last other token.       *)
CommentRuns(ps, k, acc) ==
  LET flush == IF acc = <<>> THEN <<>>
               ELSE << [kind |-> "Comment", text |-> acc] >>
  IN IF k > Len(ps) THEN flush
     ELSE IF CommentPieces[ps[k]].kind = "Comment"
     THEN CommentRuns(ps, k + 1, acc \o CommentPieces[ps[k]].body)
     ELSE IF CommentPieces[ps[k]].kind = "Space"
     THEN CommentRuns(ps, k + 1, acc)
     ELSE flush \o << [kind |-> "Punctuator", text |-> <<>>] >>
          \o CommentRuns(ps, k + 1, <<>>)

comment_text(lex, t) == SubSeq(lex.comments, t.i + 1, t.j)

(* C17: each run of adjacent comments, with no other token between them,   *)
(* yields exactly one Comment token, and its range of the comment arena    *)
(* holds the concatenation of the trimmed texts of the comments.           *)
C17_MergedComments ==
  Lexed("comments") =>
    [k \in 1..Len(LexedTokens) |->
       [kind |-> LexedTokens[k].kind,
        text |-> IF LexedTokens[k].kind = "Comment"
                 THEN comment_text(lex_data[1], LexedTokens[k])
                 ELSE <<>>]]
      = CommentRuns(h_expr.pieces, 1, <<>>)

(* C18 as claimed: the text read back from the arena range of every        *)
(* Identifier, Literal, NumericConstant and CharConstant token is the text *)
(* of the token in the source.                                             *)
C18_RoundTrip ==
  Lexed("ids") =>
    /\ Len(LexedTokens) = Len(h_expr.pieces)
    /\ \A k \in 1..Len(LexedTokens) :
         /\ LexedTokens[k].kind = IdPieces[h_expr.pieces[k]].kind
         /\ id_text(lex_data[1], LexedTokens[k])
              = IdPieces[h_expr.pieces[k]].source

(* C18 as amended: the text read back from the arena range of every        *)
(* Identifier and NumericConstant token is the text of the token in the    *)
(* source, and that of every Literal and CharConstant token is the         *)
(* characters the source denotes between the delimiters, each escape       *)
(* sequence read as one character.                                         *)
C18_RoundTripDecoded ==
  Lexed("ids") =>
    /\ Len(LexedTokens) = Len(h_expr.pieces)
    /\ \A k \in 1..Len(LexedTokens) :
         /\ LexedTokens[k].kind = IdPieces[h_expr.pieces[k]].kind
         /\ id_text(lex_data[1], LexedTokens[k])
              = IdPieces[h_expr.pieces[k]].value
         /\ LexedTokens[k].kind \in {"Identifier", "NumericConstant"} =>
              id_text(lex_data[1], LexedTokens[k])
                = IdPieces[h_expr.pieces[k]].source

(* x_1 "a\nb" '\t' has been lexed. *)
C18_Witness ==
  /\ Lexed("ids") /\ h_expr.pieces = <<2, 7, 10>>
  /\ Len(LexedTokens) = 3
  /\ id_text(lex_data[1], LexedTokens[2]) = <<"a", LF, "b">>

(***************************************************************************)
(* Phase 1 on its own: a single file written from at most MaxDecls         *)
(* top-level constructs is lexed and parsed.  A construct is a function    *)
(* definition (form "function": its name, the names of its parameters,     *)
(* <<>> for a parameter without name, the number of its tokens and the     *)
(* offsets of the braces of its body), a construct that begins with no     *)
(* builtin type ("silent"), a construct that begins with a builtin type    *)
(* and is no function definition ("fatal"), or a function definition cut   *)
(* short ("open").                                                         *)
(***************************************************************************)
MaxDecls == 3

DeclPieces ==
  << [text |-> <<"i", "n", "t", " ", "f", "(", ")", "{", "}">>,
        form |-> "function", name |-> <<"f">>,
      params |-> <<>>, ntok |-> 6, beg |-> 4, end |-> 5],
     [text |-> <<"i", "n", "t", " ", "g", "(", "i", "n", "t", " ", "a",
           ")", "{", "}">>, form |-> "function", name |-> <<"g">>,
      params |-> << <<"a">> >>, ntok |-> 8, beg |-> 6, end |-> 7],
     [text |-> <<"i", "n", "t", " ", "h", "(", "i", "n", "t", ",", " ",
           "i", "n", "t", " ", "b", ")", "{", "}">>, form |-> "function",
      name |-> <<"h">>, params |-> << <<>>, <<"b">> >>, ntok |-> 10,
      beg |-> 8, end |-> 9],
     [text |-> <<"v", "o", "i", "d", " ", "k", "(", "c", "h", "a", "r",
           "*", ")", "{", "}">>, form |-> "function", name |-> <<"k">>,
      params |-> << <<>> >>, ntok |-> 8, beg |-> 6, end |-> 7],
     [text |-> <<"i", "n", "t", " ", "q", "(", ")", "{", "{", "}", "}">>,
           form |-> "function", name |-> <<"q">>,
      params |-> <<>>, ntok |-> 8, beg |-> 4, end |-> 7],
     [text |-> <<"i", "n", "t", " ", "r", "(", "i", "n", "t", " ", "a",
           ",", " ", "c", "h", "a", "r", "*", " ", "b", ")", "{", "}">>,
                 form |-> "function",
      name |-> <<"r">>, params |-> << <<"a">>, <<"b">> >>, ntok |-> 12,
      beg |-> 10, end |-> 11],
     [text |-> <<"i", "n", "t", " ", "s", "(", ")", "{", "{", "}", "{",
           "}", "}">>, form |-> "function", name |-> <<"s">>,
      params |-> <<>>, ntok |-> 10, beg |-> 4, end |-> 9],
     [text |-> <<"i", "n", "t", " ", "x", ";">>, form |-> "fatal",
           name |-> <<"x">>,
      params |-> <<>>, ntok |-> 3, beg |-> 0, end |-> 0],
     [text |-> <<"i", "n", "t", " ", "m", "(", "i", "n", "t", " ", "a",
           " ", "i", "n", "t", " ", "b", ")", "{", "}">>, form |-> "fatal",
                 name |-> <<"m">>,
      params |-> <<>>, ntok |-> 10, beg |-> 0, end |-> 0],
     [text |-> <<"s", "t", "r", "u", "c", "t", " ", "S", "{", "}", ";">>,
           form |-> "silent", name |-> <<"S">>,
      params |-> <<>>, ntok |-> 5, beg |-> 0, end |-> 0],
     [text |-> <<";">>, form |-> "silent", name |-> <<>>,
      params |-> <<>>, ntok |-> 1, beg |-> 0, end |-> 0],
     [text |-> <<"i", "n", "t", " ", "n", "(">>, form |-> "open",
           name |-> <<"n">>,
      params |-> <<>>, ntok |-> 3, beg |-> 0, end |-> 0],
     [text |-> <<"i", "n", "t", " ", "p", "(", ")", "{", "{", "}">>,
           form |-> "open", name |-> <<"p">>,
      params |-> <<>>, ntok |-> 7, beg |-> 4, end |-> 0] >>

RECURSIVE DeclText(_, _)
(* The characters of the constructs ps from construct k on, a blank after  *)
(* each.                                                                   *)
DeclText(ps, k) ==
  IF k > Len(ps) THEN <<>>
  ELSE DeclPieces[ps[k]].text \o <<" ">> \o DeclText(ps, k + 1)

DeclInit ==
  /\ \E n \in 0..MaxDecls :
       \E ps \in [1..n -> 1..Len(DeclPieces)] :
         h_expr = [kind |-> "decls", pieces |-> ps]
  /\ parse_files = <<"main.cpp">>
  /\ file_text = [fn \in {"main.cpp"} |-> DeclText(h_expr.pieces, 1)]
  /\ nthreads = 0
  /\ strtol_binary = FALSE
  /\ PoolInit /\ ProgInit
  /\ mpc = "lex"
  /\ mfile = 0
  /\ OutInit

DeclNext == E_Lex \/ E_Parse

DeclSpec == DeclInit /\ [][DeclNext]_vars

(***************************************************************************)
(* Properties of phase 1                                                   *)
(***************************************************************************)
(* Phase 1 has run on the file of constructs. *)
DeclParsed == h_expr.kind = "decls" /\ mfile = 1

(* The number of function definitions the file begins with. *)
Leading(ps) ==
  IF \E k \in 1..Len(ps) : DeclPieces[ps[k]].form # "function"
  THEN (CHOOSE k \in 1..Len(ps) :
          /\ DeclPieces[ps[k]].form # "function"
          /\ \A l \in 1..(k - 1) : DeclPieces[ps[l]].form = "function") - 1
  ELSE Len(ps)

(* The first construct that is no function definition, where there is one. *)
HasOther == Leading(h_expr.pieces) < Len(h_expr.pieces)
Other == DeclPieces[h_expr.pieces[Leading(h_expr.pieces) + 1]]

(* The parse result holds exactly the functions the file begins with. *)
OnlyLeading ==
  /\ Len(parser_data) = 1
  /\ Len(parser_data[1].functions) = Leading(h_expr.pieces)
  /\ \A k \in 1..Leading(h_expr.pieces) :
       parser_data[1].functions[k].name = DeclPieces[h_expr.pieces[k]].name

Recorded == parser_data[1].functions
DeclTokens == lex_data[1]

(* The braces among the tokens from..to: opening minus closing. *)
BraceDepth(lex, from, to) ==
  Cardinality({m \in from..to : is_punctuator(goto_token(lex, m), "{")})
  - Cardinality({m \in from..to : is_punctuator(goto_token(lex, m), "}")})

(* Token e closes the brace that token b opens. *)
Matches(lex, b, e) ==
  /\ is_punctuator(goto_token(lex, b), "{")
  /\ is_punctuator(goto_token(lex, e), "}")
  /\ BraceDepth(lex, b, e) = 0
  /\ \A m \in b..(e - 1) : BraceDepth(lex, b, m) > 0

RECURSIVE DeclOffset(_, _)
(* The index of the first token of construct k. *)
DeclOffset(ps, k) ==
  IF k = 1 THEN 0 ELSE DeclOffset(ps, k - 1) + DeclPieces[ps[k - 1]].ntok

(* C28: for every function recorded by phase 1, beg_tok is the index of    *)
(* the opening brace of its body and end_tok the index of the matching     *)
(* closing brace, and no statement is built; a body that the end of the    *)
(* file cuts before its matching brace terminates the process.             *)
C28_BodyRange ==
  DeclParsed =>
    /\ Len(Recorded) = Leading(h_expr.pieces)
    /\ \A k \in 1..Len(Recorded) :
         /\ Recorded[k].body.beg_tok
              = DeclOffset(h_expr.pieces,
                    k) + DeclPieces[h_expr.pieces[k]].beg
         /\ Matches(DeclTokens, Recorded[k].body.beg_tok,
                    Recorded[k].body.end_tok)
         /\ Recorded[k].body.block = NULL
    /\ (HasOther /\ Other.name = <<"p">>) => exited

C28_Witness ==
  /\ DeclParsed /\ h_expr.pieces = <<7, 5, 13>>
  /\ exited
  /\ Recorded[1].body.end_tok = 9
  /\ Recorded[2].body.beg_tok = 14 /\ Recorded[2].body.end_tok = 17

(* C29, as stated: a parameter without a name that is followed by a comma  *)
(* is rejected, so a file that begins with int h(int, int b){} terminates  *)
(* the process.                                                            *)
C29_UnnamedCommaRejected ==
  (DeclParsed /\ h_expr.pieces # <<>> /\ h_expr.pieces[1] = 3) => exited

(* The names of the parameters of a recorded function. *)
ParamNames(f) == [k \in 1..Len(f.params.params) |-> f.params.params[k].name]

(* C29, amended: any parameter may omit its name; a parameter without a    *)
(* name is recorded with an empty name whether a comma or the closing      *)
(* parenthesis follows it, and a name that is followed by neither of the   *)
(* two terminates the process.                                             *)
C29_UnnamedAccepted ==
  DeclParsed =>
    /\ Len(Recorded) = Leading(h_expr.pieces)
    /\ \A k \in 1..Len(Recorded) :
         ParamNames(Recorded[k]) = DeclPieces[h_expr.pieces[k]].params
    /\ (HasOther /\ Other.name = <<"m">>) => exited

C29_Witness ==
  /\ DeclParsed /\ h_expr.pieces = <<3, 4, 6>>
  /\ ~exited /\ Len(Recorded) = 3
  /\ ParamNames(Recorded[1]) = << <<>>, <<"b">> >>

(***************************************************************************)
(* Properties of the lexer: literals, look-ahead and directives            *)
(***************************************************************************)
(* The file of pieces of group g has been read, to its end or to a         *)
(* LexError.                                                               *)
LexRan(g) ==
  /\ h_expr.kind = "text" /\ h_expr.group = g
  /\ mpc = "parse" /\ Len(lex_data) = 1

(* The literal that begins at character s of text (after a blank or at the *)
(* start) begins with 0, has a second digit, and has a digit 8 or 9.       *)
BadOctalAt(text, s) ==
  /\ text[s] = "0"
  /\ s = 1 \/ text[s - 1] = " "
  /\ s < Len(text) /\ IsDigit(text[s + 1])
  /\ \E e \in (s + 1)..Len(text) :
       /\ text[e] \in {"8", "9"}
       /\ \A m \in s..e : IsDigit(text[m])

(* C22: every numeric literal that begins with 0 and has a digit 8 or 9    *)
(* at any position after the 0 is a fatal LexError.                        *)
C22_OctalDigitFatal ==
  (LexRan("digits")
   /\ \E s \in 1..Len(file_text["main.cpp"]) :
        BadOctalAt(file_text["main.cpp"], s))
    => exited

(* The 8 or 9 is the third digit or a later one: the case the lexer        *)
(* reports.                                                                *)
C22_Witness ==
  /\ LexRan("digits") /\ h_expr.pieces = <<1, 2, 3>>
  /\ exited

(* Piece k of the preprocessor pieces ps lies in an open directive: a      *)
(* directive begins before it and no unescaped newline lies in between.    *)
InDirective(ps, k) ==
  \E j \in 1..(k - 1) :
    /\ PreproPieces[ps[j]].form = "directive"
    /\ \A m \in (j + 1)..(k - 1) : PreproPieces[ps[m]].form # "newline"

(* The tokens of kind PPBegin and PPEnd, in order. *)
PPTokens(tokens) ==
  SelectSeq(tokens, LAMBDA t : t.kind \in {"PPBegin", "PPEnd"})

CountKind(tokens, kind) ==
  Cardinality({k \in 1..Len(tokens) : tokens[k].kind = kind})

CountPieces(ps, form, open) ==
  Cardinality({k \in 1..Len(ps) :
                 /\ PreproPieces[ps[k]].form = form
                 /\ InDirective(ps, k) = open})

(* C27: PPBegin and PPEnd alternate, beginning with PPBegin; every         *)
(* directive emits one PPBegin and, at the first newline that no           *)
(* backslash escapes, one PPEnd; the code after that newline is lexed      *)
(* with the keyword table, so its int is a Keyword.                        *)
C27_DirectiveBrackets ==
  Lexed("prepro") =>
    /\ \A k \in 1..Len(PPTokens(LexedTokens)) :
         PPTokens(LexedTokens)[k].kind
           = IF k % 2 = 1 THEN "PPBegin" ELSE "PPEnd"
    /\ CountKind(LexedTokens, "PPBegin")
         = CountPieces(h_expr.pieces, "directive", FALSE)
    /\ CountKind(LexedTokens, "PPEnd")
         = CountPieces(h_expr.pieces, "newline", TRUE)
    /\ CountKind(LexedTokens, "Keyword")
         = CountPieces(h_expr.pieces, "code", FALSE)

(* A directive that a plain newline ends. *)
C27_Witness ==
  /\ Lexed("prepro") /\ h_expr.pieces = <<1, 2, 4>>
  /\ CountKind(LexedTokens, "PPEnd") = 1
  /\ CountKind(LexedTokens, "Keyword") = 1

(* The second character c2 extends the operator or the numeric prefix that *)
(* c begins.                                                               *)
Extends(c, c2) ==
  CASE c = "+" -> c2 \in {"+", "="}
    [] c = "." -> IsDigit(c2)
    [] c = "0" -> c2 \in {"x", "X", "b", "B", "."} \/ InRange(c2, "0", "7")
    [] c \in {"<", "="} -> c2 = c \/ c2 = "="
    [] OTHER -> TRUE

(* What a token says: its kind and its text, or its characters where it    *)
(* has no text.                                                            *)
TokenView(lex, t) ==
  IF t.kind \in {"Identifier", "Literal", "NumericConstant", "CharConstant",
                 "PPHeaderName"}
  THEN [kind |-> t.kind, text |-> id_text(lex, t)]
  ELSE [kind |-> t.kind, text |-> <<t.i, t.j>>]

TokenViews(lex) ==
  [k \in 1..Len(lex.tokens) |-> TokenView(lex, lex.tokens[k])]

(* The token of the single character c. *)
AloneView(c) ==
  IF c = "0" THEN [kind |-> "NumericConstant", text |-> <<"0">>]
  ELSE [kind |-> "Punctuator", text |-> <<Ord(c), 0>>]

(* C24: when the character read after the first one does not extend the   *)
(* operator or numeric prefix, the first character is a token of its own   *)
(* and the tokens after it are those of the text from the second           *)
(* character on: the second character is not lost.                         *)
C24_LookAheadKept ==
  (LexRan("ahead") /\ Len(file_text["main.cpp"]) >= 2
   /\ ~Extends(file_text["main.cpp"][1], file_text["main.cpp"][2]))
    => LET rest == lex_text("main.cpp", Tail(file_text["main.cpp"]))
       IN /\ exited = rest.exited
          /\ ~exited =>
               TokenViews(lex_data[1])
                 = <<AloneView(file_text["main.cpp"][1])>>
                   \o TokenViews(rest.data)

C24_Witness ==
  /\ LexRan("ahead") /\ h_expr.pieces = <<3, 1, 7>>
  /\ ~exited
  /\ TokenViews(lex_data[1])
       = << [kind |-> "NumericConstant", text |-> <<"0">>],
            [kind |-> "Punctuator", text |-> <<Ord("+"), 0>>],
            [kind |-> "NumericConstant", text |-> <<"7">>],
            [kind |-> "Eof", text |-> <<0, 0>>] >>

(***************************************************************************)
(* Lexer::lex() taken by steps: a single file written from at most         *)
(* MaxPieces pieces (identifiers, numbers, comments, a string, an #include *)
(* line, a punctuator) is lexed one process() call at a time, and the      *)
(* Lexer object is the state.                                              *)
(***************************************************************************)
StepPieces ==
  << <<"a", "b", " ">>, <<"1", "2", " ">>, <<"/", "/", "a", LF>>, <<"/",
        "*", "c", "*", "/">>, <<DQUOTE, "s", DQUOTE, " ">>,
     <<"#", "i", "n", "c", "l", "u", "d", "e", " ", "<", "a", ">", LF>>,
           <<";">> >>

RECURSIVE StepText(_, _)
StepText(ps, k) ==
  IF k > Len(ps) THEN <<>> ELSE StepPieces[ps[k]] \o StepText(ps, k + 1)

(* One turn of the loops of Lexer::lex(): nextchar() where the last        *)
(* process() asked for it, and process().                                  *)
L_Step ==
  /\ ~exited /\ mpc = "lex" /\ ~lex_loop_done(lexer)
  /\ lexer' = lex_step(lexer)
  /\ exited' = lexer'.exited
  /\ UNCHANGED <<parse_files, nthreads, strtol_binary, file_text, h_expr,
                 poolVars, workerVars, mpc, mfile, outVars, progVars,
                 histVars>>

(* The end of Lexer::lex(): the Eof token, and the data is moved into the  *)
(* program.                                                                *)
L_Eof ==
  /\ ~exited /\ mpc = "lex" /\ lex_loop_done(lexer)
  /\ lexer' = add_token(lexer, "Eof", 0, 0)
  /\ lex_data' = Append(lex_data, LexDataOf(lexer'))
  /\ mpc' = "parse"
  /\ UNCHANGED <<parse_files, nthreads, strtol_binary, file_text, h_expr,
                 poolVars, workerVars, mfile, outVars, parser_data,
                 lex_mutex, parser_mutex, exited, histVars>>

StepInit ==
  /\ \E n \in 0..MaxPieces :
       \E ps \in [1..n -> 1..Len(StepPieces)] :
         h_expr = [kind |-> "steps", pieces |-> ps]
  /\ parse_files = <<"main.cpp">>
  /\ file_text = [fn \in {"main.cpp"} |-> StepText(h_expr.pieces, 1)]
  /\ nthreads = 0
  /\ strtol_binary = FALSE
  /\ PoolInit
  /\ lex_data = <<>> /\ parser_data = <<>>
  /\ lex_mutex = NoThread /\ parser_mutex = NoThread
  /\ lexer = LexerInit("main.cpp", file_text["main.cpp"])
  /\ mpc = "lex"
  /\ mfile = 0
  /\ OutInit

StepNext == L_Step \/ L_Eof

StepSpec == StepInit /\ [][StepNext]_vars

(***************************************************************************)
(* Properties of the lexer's steps                                         *)
(***************************************************************************)
IsPrefix(s, t) == Len(s) <= Len(t) /\ SubSeq(t, 1, Len(s)) = s

(* Every token with text has its range inside the arena of its kind. *)
ArenasHold(L) ==
  \A k \in 1..Len(L.tokens) :
    LET t == L.tokens[k]
    IN /\ t.kind \in {"Identifier", "Literal", "NumericConstant",
                      "CharConstant", "PPHeaderName"}
            => (0 <= t.i /\ t.i <= t.j /\ t.j <= Len(L.ids))
       /\ t.kind = "Comment"
            => (0 <= t.i /\ t.i <= t.j /\ t.j <= Len(L.comments))

(* C25: at every point of lexing a file every token with text has its      *)
(* range inside the ids arena, every Comment token inside the comments     *)
(* arena, and each step only appends to the arenas.                        *)
C25_ArenaRanges ==
  [][ /\ ArenasHold(lexer) /\ ArenasHold(lexer')
      /\ IsPrefix(lexer.ids, lexer'.ids)
      /\ IsPrefix(lexer.comments, lexer'.comments) ]_vars

C25_Witness ==
  /\ h_expr.kind = "steps" /\ h_expr.pieces = <<1, 3, 6>>
  /\ mpc = "parse"
  /\ Len(lexer.ids) = 5 /\ Len(lexer.comments) = 1
  /\ Len(lexer.tokens) = 7

(* The tokens are in the order of their positions. *)
Ordered(tokens) ==
  \A k \in 1..(Len(tokens) - 1) :
    \/ tokens[k].pos[1] < tokens[k + 1].pos[1]
    \/ /\ tokens[k].pos[1] = tokens[k + 1].pos[1]
       /\ tokens[k].pos[2] <= tokens[k + 1].pos[2]

(* C26, as stated: a token that has been added never changes, and the      *)
(* tokens are in the order of their positions.                             *)
C26_TokensFrozen ==
  [][ /\ IsPrefix(lexer.tokens, lexer'.tokens)
      /\ Ordered(lexer'.tokens) ]_vars

(* C26, amended: a token that has been added never changes, but for the    *)
(* end j of the last token, which grows while that token is a Comment and  *)
(* the next comment is merged into it; the tokens are in the order of      *)
(* their positions.                                                        *)
C26_TokensFrozenButMerge ==
  [][ /\ Len(lexer.tokens) <= Len(lexer'.tokens)
      /\ \A k \in 1..Len(lexer.tokens) :
           \/ lexer'.tokens[k] = lexer.tokens[k]
           \/ /\ k = Len(lexer.tokens) /\ k = Len(lexer'.tokens)
              /\ lexer.tokens[k].kind = "Comment"
              /\ lexer'.tokens[k].j > lexer.tokens[k].j
              /\ lexer'.tokens[k] = [lexer.tokens[k] EXCEPT
                                       !.j = lexer'.tokens[k].j]
      /\ Ordered(lexer'.tokens) ]_vars

C26_Witness ==
  /\ h_expr.kind = "steps" /\ h_expr.pieces = <<3, 4, 1>>
  /\ mpc = "parse"
  /\ Len(lexer.tokens) = 3
  /\ lexer.tokens[1].kind = "Comment"
  /\ lexer.tokens[1].i = 0 /\ lexer.tokens[1].j = 2

(***************************************************************************)
(* The files of the disk lexed, parsed and run, and main's Function node   *)
(* walked again: what the walks do to the AST of several functions.        *)
(***************************************************************************)
FilesInit ==
  /\ h_expr = NoExpr
  /\ \E n \in 0..MaxFiles : parse_files \in [1..n -> FileNames]
  /\ file_text = Disk
  /\ nthreads = 0
  /\ strtol_binary = FALSE
  /\ PoolInit /\ ProgInit
  /\ mpc = IF parse_files = <<>> THEN "run" ELSE "lex"
  /\ mfile = 0
  /\ OutInit

WalkSpec == FilesInit /\ [][BodyNext]_vars

(* The Function node f is left as it is, or it is the main selected for    *)
(* evaluation and its Body goes from unparsed to parsed, all else equal.   *)
BodyStep(pdata, d, k, f, g) ==
  \/ g = f
  \/ /\ f.body.block = NULL /\ g.body.block # NULL
     /\ g = [f EXCEPT !.body.block = g.body.block]
     /\ main_candidates(pdata) = << <<d - 1, k - 1>> >>

(* C23: after phase 1 every Body is unparsed; a step changes no AST node   *)
(* but the Body of the one main selected for evaluation, which goes from   *)
(* unparsed to parsed and so changes at most once.                         *)
C23_OnlyMainBody ==
  [][ /\ h_walks = 0 => Unparsed(parser_data)
      /\ Len(parser_data) <= Len(parser_data')
      /\ \A d \in 1..Len(parser_data) :
           /\ parser_data'[d].fn = parser_data[d].fn
           /\ Len(parser_data'[d].functions) = Len(parser_data[d].functions)
           /\ \A k \in 1..Len(parser_data[d].functions) :
                BodyStep(parser_data, d, k, parser_data[d].functions[k],
                         parser_data'[d].functions[k]) ]_vars

C23_Witness ==
  /\ parse_files = <<"c.cpp", "b.cpp">>
  /\ mpc = "join_all" /\ h_walks = MaxWalks /\ h_parses = 1
  /\ parser_data[2].functions[1].body.block # NULL
  /\ \A k \in 1..2 : parser_data[1].functions[k].body.block = NULL

(***************************************************************************)
(* Division on its own: a single file int main(){ return E; } is lexed,    *)
(* parsed and run, with E the quotient a/b, the remainder a%b or           *)
(* (a/b)*b+a%b of two operands, a negative operand written (0-n).          *)
(***************************************************************************)
MaxOperand == 7
MaxDivisor == 3

DigitChars == <<"0", "1", "2", "3", "4", "5", "6", "7", "8", "9">>

RECURSIVE NatText(_)
NatText(n) ==
  IF n < 10 THEN <<DigitChars[n + 1]>>
  ELSE NatText(n \div 10) \o <<DigitChars[(n % 10) + 1]>>

OperandText(n) ==
  IF n >= 0 THEN NatText(n) ELSE <<"(", "0", "-">> \o NatText(-n) \o <<")">>

DivText(e) ==
  CASE e.form = "quotient" -> OperandText(e.a) \o <<"/">> \o OperandText(e.b)
    [] e.form = "remainder" ->
         OperandText(e.a) \o <<"%">> \o OperandText(e.b)
    [] e.form = "identity" ->
         <<"(">> \o OperandText(e.a) \o <<"/">> \o OperandText(e.b)
         \o <<")", "*">> \o OperandText(e.b) \o <<"+">>
         \o OperandText(e.a) \o <<"%">> \o OperandText(e.b)

DivInit ==
  /\ \E a \in (-MaxOperand)..MaxOperand :
       \E b \in ((-MaxDivisor)..MaxDivisor) \ {0} :
         \E f \in {"quotient", "remainder", "identity"} :
           h_expr = [kind |-> "div", a |-> a, b |-> b, form |-> f]
  /\ parse_files = <<"main.cpp">>
  /\ file_text = [fn \in {"main.cpp"} |->
                    <<"i","n","t"," ","m","a","i","n","(",")","{"," ",
                      "r","e","t","u","r","n"," ">>
                    \o DivText(h_expr) \o <<";"," ","}">>]
  /\ nthreads = 0
  /\ strtol_binary = FALSE
  /\ PoolInit /\ ProgInit
  /\ mpc = "lex"
  /\ mfile = 0
  /\ OutInit

DivSpec == DivInit /\ [][EvalNext]_vars

(* The quotient of a by b truncated toward zero: the q with a = q*b + r,   *)
(* |r| < |b| and r zero or of the sign of a.                               *)
RefQuotient(a, b) ==
  CHOOSE q \in (-Abs(a))..Abs(a) :
    \E r \in (1 - Abs(b))..(Abs(b) - 1) :
      /\ a = q * b + r
      /\ r = 0 \/ (r < 0) = (a < 0)

(* C30: a BinExpr leaves exactly one value on the stack; a/b is the        *)
(* quotient truncated toward zero, a%b the remainder of the sign of a, and *)
(* (a/b)*b + a%b is a.                                                     *)
C30_TruncatingDivision ==
  (h_expr.kind = "div" /\ mpc = "join_all") =>
    /\ ~exited
    /\ vm_stack =
         << CASE h_expr.form = "quotient" -> RefQuotient(h_expr.a, h_expr.b)
              [] h_expr.form = "remainder" ->
                   h_expr.a - h_expr.b * RefQuotient(h_expr.a, h_expr.b)
              [] h_expr.form = "identity" -> h_expr.a >>
    /\ ret_value = vm_stack[1]

C30_Witness ==
  /\ h_expr = [kind |-> "div", a |-> -7, b |-> 2, form |-> "remainder"]
  /\ mpc = "join_all" /\ ~exited
  /\ vm_stack = <<-1>>

(***************************************************************************)
(* Integer literals on their own: a single file int main(){ return L; }    *)
(* is lexed, parsed and run, with L a base prefix and at most MaxDigits    *)
(* digits 0 and 1, under a C library whose strtol reads the prefix 0b and  *)
(* under one whose strtol does not.                                        *)
(***************************************************************************)
MaxDigits == 3

LitPrefixes ==
  << <<>>, <<"0">>, <<"0", "x">>, <<"0", "X">>, <<"0", "b">>, <<"0", "B">> >>

LitText(e) == LitPrefixes[e.prefix] \o e.digits

LitInit ==
  /\ \E p \in 1..Len(LitPrefixes) :
       \E n \in 1..MaxDigits :
         \E ds \in [1..n -> {"0", "1"}] :
           h_expr = [kind |-> "lit", prefix |-> p, digits |-> ds]
  /\ parse_files = <<"main.cpp">>
  /\ file_text = [fn \in {"main.cpp"} |->
                    <<"i","n","t"," ","m","a","i","n","(",")","{"," ",
                      "r","e","t","u","r","n"," ">>
                    \o LitText(h_expr) \o <<";"," ","}">>]
  /\ nthreads = 0
  /\ strtol_binary \in BOOLEAN
  /\ PoolInit /\ ProgInit
  /\ mpc = "lex"
  /\ mfile = 0
  /\ OutInit

LitSpec == LitInit /\ [][EvalNext]_vars

(* The base the text of an integer literal names. *)
RefBase(text) ==
  IF Len(text) >= 2 /\ text[1] = "0" /\ text[2] \in {"x", "X"} THEN 16
  ELSE IF Len(text) >= 2 /\ text[1] = "0" /\ text[2] \in {"b", "B"} THEN 2
  ELSE IF Len(text) >= 2 /\ text[1] = "0" THEN 8
  ELSE 10

RECURSIVE PosValue(_, _)
(* The number that the digits ds, each 0 or 1, write in the base. *)
PosValue(ds, base) ==
  IF ds = <<>> THEN 0
  ELSE PosValue(SubSeq(ds, 1, Len(ds) - 1), base) * base
       + (IF ds[Len(ds)] = "1" THEN 1 ELSE 0)

(* C31: the value of an integer literal is that of its digits in the base  *)
(* of its prefix: 16 for 0x and 0X, 2 for 0b and 0B, 8 for a leading 0,    *)
(* else 10.                                                                *)
C31_LiteralBase ==
  (h_expr.kind = "lit" /\ mpc = "join_all") =>
    /\ ~exited
    /\ vm_stack = << PosValue(h_expr.digits, RefBase(LitText(h_expr))) >>

(* A hexadecimal literal, which every C library reads. *)
C31_Witness ==
  /\ h_expr = [kind |-> "lit", prefix |-> 3, digits |-> <<"1", "1">>]
  /\ mpc = "join_all" /\ ~exited /\ ~strtol_binary
  /\ vm_stack = <<17>>

(***************************************************************************)
(* Properties of the pool: the counter and the teardown                    *)
(***************************************************************************)
(* The workers that have dequeued a task and not yet finished it. *)
InFlight == {w \in Workers : wfunc[w] # NoTask}

(* C32: in every state of the pool, teardown included, m_doingWork is the  *)
(* number of workers that have dequeued a task and not yet finished it,    *)
(* so it lies between 0 and the number of workers.                         *)
C32_InFlightCount ==
  /\ m_doingWork = Cardinality(InFlight)
  /\ 0 <= m_doingWork /\ m_doingWork <= Cardinality(Workers)

(* Before the teardown the counter is the number of tasks in flight. *)
C32_Witness ==
  /\ m_running /\ nthreads = 2
  /\ m_doingWork = 2 /\ Cardinality(InFlight) = 2

(* The pool with a fair scheduler, and an owner that, once inside          *)
(* join_all(), goes on with it.                                            *)
TeardownFairSpec ==
  /\ PoolSpecInit /\ [][PoolNext]_vars
  /\ SF_vars(P_WaitAll)
  /\ \A w \in 1..MaxThreads : SF_vars(w \in Workers /\ PoolWorker(w))
  /\ WF_vars(J_Stop \/ J_Notify \/ J_Join)

(* C33: once join_all() has begun, every worker leaves its loop and is     *)
(* joined, unless the process has ended before.                            *)
C33_TeardownCompletes ==
  (mpc = "join_all") ~> (mpc = "joined" \/ exited)

(* A teardown that completes: the worker was blocked in m_cv.wait() when   *)
(* it was notified.                                                        *)
C33_Witness == mpc = "joined" /\ nthreads = MaxThreads /\ h_enq = MaxJobs

(* C34: wait_all() returns whatever the number of workers, zero included. *)
C34_WaitAllReturnsAlways ==
  (mpc \in {"wait_all", "wait_all_blocked"}) ~> (mpc = "owner")

(* The owner inside wait_all() on a pool without workers, a task queued. *)
C34_Witness ==
  /\ nthreads = 0 /\ m_work # <<>>
  /\ mpc \in {"wait_all", "wait_all_blocked"}

(***************************************************************************)
(* Properties of the lexer: the end of a block comment, identifiers        *)
(***************************************************************************)
(* The tokens of the lexed file that are not comments. *)
CodeTokens(lex) == SelectSeq(TokenViews(lex), LAMBDA v : v.kind # "Comment")

RECURSIVE BlockCode(_, _)
(* The tokens other than comments of the block pieces ps from piece k on:  *)
(* one Punctuator for each ';' and the Eof.                                *)
BlockCode(ps, k) ==
  IF k > Len(ps) THEN << [kind |-> "Eof", text |-> <<0, 0>>] >>
  ELSE (IF BlockPieces[ps[k]].kind = "Punctuator"
        THEN << [kind |-> "Punctuator", text |-> <<Ord(";"), 0>>] >>
        ELSE <<>>)
       \o BlockCode(ps, k + 1)

(* C35: a block comment ends at the first star-slash after its opening,    *)
(* also after a run of several '*', and the text after it is tokenized     *)
(* normally: the tokens other than comments are those of the text outside  *)
(* the comments.                                                           *)
C35_BlockCommentEnds ==
  LexRan("blocks") =>
    /\ ~exited
    /\ CodeTokens(lex_data[1]) = BlockCode(h_expr.pieces, 1)

(* A comment closed after a single '*', then a ';' that is tokenized. *)
C35_Witness ==
  /\ LexRan("blocks") /\ ~exited
  /\ h_expr.pieces = <<1, 5>>
  /\ CodeTokens(lex_data[1]) = BlockCode(h_expr.pieces, 1)
  /\ Len(lex_data[1].tokens) = 3

RECURSIVE BraceTokens(_, _, _)
(* The tokens of text from character k on, word the letters read since the *)
(* last token: a word is a Keyword or an Identifier, '{', '}' and '~' are  *)
(* Punctuators of one character and '|' joins a '|' that follows it.       *)
BraceTokens(text, k, word) ==
  LET kw == IndexIn(keywords_id, word)
      flush == IF word = <<>> THEN <<>>
               ELSE IF kw >= 0
               THEN << [kind |-> "Keyword", text |-> <<kw, 0>>] >>
               ELSE << [kind |-> "Identifier", text |-> word] >>
  IN IF k > Len(text)
     THEN flush \o << [kind |-> "Eof", text |-> <<0, 0>>] >>
     ELSE IF InRange(text[k], "a", "z")
     THEN BraceTokens(text, k + 1, Append(word, text[k]))
     ELSE IF text[k] = " "
     THEN flush \o BraceTokens(text, k + 1, <<>>)
     ELSE IF text[k] = "|" /\ k < Len(text) /\ text[k + 1] = "|"
     THEN flush \o << [kind |-> "Punctuator", text |-> <<Ord("|"),
           Ord("|")>>] >>
          \o BraceTokens(text, k + 2, <<>>)
     ELSE flush \o << [kind |-> "Punctuator", text |-> <<Ord(text[k]), 0>>] >>
          \o BraceTokens(text, k + 1, <<>>)

IsWordChar(c) ==
  InRange(c, "a", "z") \/ InRange(c, "A", "Z") \/ IsDigit(c) \/ c = "_"

(* C36: the text of every Identifier token has only letters, digits and    *)
(* underscores, and a word followed at once by '{', '}', '|' or '~' is a   *)
(* token of its own with a separate Punctuator after it.                   *)
C36_IdentifierChars ==
  LexRan("braces") =>
    /\ ~exited
    /\ \A k \in 1..Len(lex_data[1].tokens) :
         lex_data[1].tokens[k].kind = "Identifier" =>
           \A n \in 1..Len(id_text(lex_data[1], lex_data[1].tokens[k])) :
             IsWordChar(id_text(lex_data[1], lex_data[1].tokens[k])[n])
    /\ TokenViews(lex_data[1]) = BraceTokens(file_text["main.cpp"], 1, <<>>)

(* A '{' at the start, then a word followed by a blank. *)
C36_Witness ==
  /\ LexRan("braces") /\ ~exited
  /\ h_expr.pieces = <<3, 1, 7>>
  /\ TokenViews(lex_data[1]) = BraceTokens(file_text["main.cpp"], 1, <<>>)
  /\ Len(lex_data[1].tokens) = 3

(***************************************************************************)
(* Properties of the statement tree and of its evaluation                  *)
(***************************************************************************)
RECURSIVE WellFormed(_)
(* No node that run_node() visits below n is missing: run_node() visits    *)
(* the operand of a UnaryExpr, both operands of a BinExpr, the expression  *)
(* of a Return that has one and every statement of a CompoundStmt.         *)
WellFormed(n) ==
  CASE n.kind = "nullptr" -> FALSE
    [] n.kind = "UnaryExpr" -> WellFormed(n.operand)
    [] n.kind = "BinExpr" -> WellFormed(n.lhs) /\ WellFormed(n.rhs)
    [] n.kind = "Return" -> n.expr = NULL \/ WellFormed(n.expr)
    [] n.kind = "CompoundStmt" ->
         \A k \in 1..Len(n.stmts) : WellFormed(n.stmts[k])
    [] OTHER -> TRUE

(* Phase 2 has returned a statement tree for main's body. *)
Accepted == mpc = "join_all" /\ h_walks >= 1 /\ MainBlock # NULL

(* C37: every statement tree that phase 2 returns is well-formed: each     *)
(* BinExpr has both operands and each UnaryExpr has its operand, so the    *)
(* evaluator visits no missing node.                                       *)
C37_WellFormedTree == Accepted => WellFormed(MainBlock)

(* The tree of a body with a unary and a plain return. *)
C37_Witness ==
  /\ Accepted /\ ~exited /\ h_expr.stmts = <<10, 3>>
  /\ WellFormed(MainBlock) /\ Len(MainBlock.stmts) = 2
  /\ MainBlock.stmts[1].expr.kind = "UnaryExpr"

(* C38: the evaluation of every body that phase 2 accepts completes and    *)
(* returns a status; no '/' or '%' is executed with a right operand 0.     *)
(* Stated of the well-formed trees, whose walk visits no missing node.     *)
C38_NoDivisionByZero ==
  (Accepted /\ WellFormed(MainBlock)) => (~h_ub /\ ~exited)

(* A body without division whose evaluation returns its status. *)
C38_Witness ==
  /\ Accepted /\ WellFormed(MainBlock) /\ ~h_ub /\ ~exited
  /\ h_expr.stmts = <<3>> /\ ret_value = 5 /\ vm_stack = <<5>>

(***************************************************************************)
(* Properties of the function bodies in the store                          *)
(***************************************************************************)
(* wait_all() has returned: no task is queued or in flight. *)
Quiesced == mpc \in {"run", "join_all", "join_notify", "join", "joined"}

(* C39: once the pipeline has quiesced, the lex_i of every function body   *)
(* is an index into lex_data, the lex result at that index is that of the  *)
(* file of the parse result that owns the function, and                    *)
(* 0 <= beg_tok < end_tok < the number of tokens of that lex result.       *)
C39_BodyRefersToOwnLex ==
  Quiesced =>
    \A d \in 1..Len(parser_data) :
      \A k \in 1..Len(parser_data[d].functions) :
        LET b == parser_data[d].functions[k].body
        IN /\ 0 <= b.lex_i /\ b.lex_i < Len(lex_data)
           /\ lex_data[b.lex_i + 1].fn = parser_data[d].fn
           /\ 0 <= b.beg_tok /\ b.beg_tok < b.end_tok
           /\ b.end_tok < Len(lex_data[b.lex_i + 1].tokens)

(* Two files whose lex results were stored by two workers in the other     *)
(* order than their parse results, each with a function body.              *)
C39_Witness ==
  /\ mpc = "run" /\ nthreads = 2
  /\ Len(lex_data) = 2 /\ Len(parser_data) = 2
  /\ lex_data[1].fn = parser_data[2].fn
  /\ parser_data[1].functions # <<>> /\ parser_data[2].functions # <<>>
  /\ parser_data[1].functions[1].body.lex_i = 1
  /\ parser_data[2].functions[1].body.lex_i = 0

(***************************************************************************)
(* Properties of the exit status                                           *)
(***************************************************************************)
(* The return statements with an expression of block, in source order. *)
ReturnsWithExpr(block) ==
  SelectSeq(block.stmts, LAMBDA s : s.kind = "Return" /\ s.expr # NULL)

(* The value of the expression of the statement texts return 5; return 2;  *)
(* and return -2; by their place in BodyStmts.                             *)
StmtValue(s) == CASE s = 3 -> 5 [] s = 4 -> 2 [] s = 10 -> 0 - 2

RECURSIVE ReturnValues(_, _)
(* The values of the returns with an expression of the statements of b     *)
(* from statement k on, b written from return; and the three texts above.  *)
ReturnValues(b, k) ==
  IF k > Len(b) THEN <<>>
  ELSE (IF b[k] = 2 THEN <<>> ELSE << StmtValue(b[k]) >>)
       \o ReturnValues(b, k + 1)

(* C40: when the only main has been evaluated, each return with an         *)
(* expression has left the stack exactly one value deeper, that value      *)
(* being the value of its expression evaluated alone, and the status is    *)
(* the value of the first of them in source order, or 0 without any.       *)
C40_FirstReturnValue ==
  (Walked /\ MainBlock # NULL) =>
    LET rs == ReturnsWithExpr(MainBlock)
    IN /\ Len(vm_stack) = Len(rs)
       /\ \A k \in 1..Len(rs) :
            << vm_stack[k] >> = run_node(rs[k], VMInit).stack
       /\ ret_value = IF rs = <<>> THEN 0 ELSE vm_stack[1]
       /\ (\A k \in 1..Len(h_expr.stmts) : h_expr.stmts[k] \in {2, 3, 4, 10})
            => vm_stack = ReturnValues(h_expr.stmts, 1)

(* return -2; followed by return 5;: the status is -2 and both values are  *)
(* on the stack.                                                           *)
C40_Witness ==
  /\ Walked /\ MainBlock # NULL
  /\ h_expr.stmts = <<10, 3>>
  /\ vm_stack = <<0 - 2, 5>> /\ ret_value = 0 - 2

=============================================================================
